---- MODULE Spec2Model ----
(***************************************************************************)
(* Middleware composition engine of use-server-action: the action builder *)
(* (createAction / use / handle), the chain it assembles per invocation,  *)
(* the context object threaded through one invocation, the flat API       *)
(* (applyMiddleware, composeMiddleware, withZodValidation, withLogging,   *)
(* unwrap), the serverAction wrapper with the Result helpers, and the     *)
(* React hook useServerAction.                                            *)
(***************************************************************************)
EXTENDS Integers, Sequences, FiniteSets, TLC

VARIABLES builders, actions, heap, inv, hook

vars == <<builders, actions, heap, inv, hook>>

(***************************************************************************)
(* Bounds                                                                  *)
(***************************************************************************)
MaxLen == 3        \* longest middleware list attached in the sequential model
MaxConcLen == 2    \* longest middleware list in the interleaved model
MaxBuilders == 3   \* builder objects allocated in the builder model
MaxActions == 2    \* actions finalized in the builder model
MaxUses == 2       \* middleware pushed onto one builder finalized by build()
MaxFlatLen == 2    \* longest middleware list given to the flat API
MaxLibLen == 1     \* longest list of library-made middleware applied to an action
MaxExecs == 2      \* executions started on one hook
MaxCalls == 2      \* calls of executeAsync whose Result the caller reads

Args == {0, 1}     \* caller arguments (the odd ones carry a valid token)

RECURSIVE SeqsUpTo(_, _)
SeqsUpTo(S, n) ==
    IF n = 0 THEN {<<>>}
    ELSE LET shorter == SeqsUpTo(S, n - 1)
         IN  shorter \cup {Append(s, x) : s \in {t \in shorter : Len(t) = n - 1}, x \in S}

(***************************************************************************)
(* Result type                                                             *)
(***************************************************************************)
success(data) == [ok |-> TRUE, data |-> data]

error(message, code) == [ok |-> FALSE, message |-> message, code |-> code]

NoOutcome == [kind |-> "none", value |-> error("", "")]

Returned(r) == [kind |-> "return", value |-> r]

Raised(e) == [kind |-> "throw", value |-> e]

(***************************************************************************)
(* Context objects.  A context is a heap object (identity matters: a      *)
(* middleware may mutate the object it received); its contents map each   *)
(* key to the entry stored under it.  An entry remembers the invocation   *)
(* that wrote it.                                                         *)
(***************************************************************************)
Keys == {"user", "db", "tmp"}

Absent == [v |-> "absent", by |-> 0]

EmptyCtx == [k \in Keys |-> Absent]

Entry(v, i) == [v |-> v, by |-> i]

KeysOf(c) == {k \in Keys : c[k] # Absent}

\* A reference <<i, n>> names the n-th object allocated by call i.
NoCtx == <<0, 0>>

IsRef(h, c) == c[1] \in DOMAIN h /\ c[2] \in 1..Len(h[c[1]])

\* Contents of a context reference (a reference to nothing reads as empty).
CtxAt(h, c) == IF IsRef(h, c) THEN h[c[1]][c[2]] ELSE EmptyCtx

Alloc(h, i, c) == [heap |-> [h EXCEPT ![i] = Append(@, c)], ref |-> <<i, Len(h[i]) + 1>>]

(***************************************************************************)
(* Middleware values.  A middleware is a function value; the marker is    *)
(* the CONTEXT_MIDDLEWARE property createContextMiddleware sets on it.    *)
(***************************************************************************)
CtxFns == {"withUser", "withDb", "withAuth", "mutateCtx", "dropCtx", "twice"}

PlainFns == {"withLogging", "withTransform", "deny", "mask", "thrower",
             "lateThrow", "catcher"}

createContextMiddleware(fn) == [fn |-> fn, marker |-> TRUE]

createMiddleware(fn) == [fn |-> fn, marker |-> FALSE]

\* Faulty variant: decides by the way the function reads its parameters.
isContextMiddlewareByShape(mw) == mw.fn \in CtxFns

isContextMiddleware(mw) == mw.marker = TRUE

Mw(fn) == IF fn \in CtxFns THEN createContextMiddleware(fn) ELSE createMiddleware(fn)

Handlers == {"okHandler", "failHandler", "throwHandler"}

(***************************************************************************)
(* Builders.  builders is the heap of ActionBuilder objects; a builder    *)
(* reference is an index into it.  Two variants of the builder exist in   *)
(* the repository: the one finalized by handle(handler) and the earlier   *)
(* one constructed around its action and finalized by build().            *)
(***************************************************************************)
NoHandler == "none"

create == [variant |-> "handle", middlewares |-> <<>>, actionFn |-> NoHandler]

createAction(bs) == [builders |-> Append(bs, create), ret |-> Len(bs) + 1]

use(bs, b, middleware) ==
    [builders |-> Append(bs, [variant |-> "handle",
                              middlewares |-> Append(bs[b].middlewares, middleware),
                              actionFn |-> NoHandler]),
     ret |-> Len(bs) + 1]

handle(bs, b, handler) ==
    [variant |-> "handle", middlewares |-> bs[b].middlewares, src |-> 0,
     handler |-> handler]

legacyCreateAction(bs, action) ==
    [builders |-> Append(bs, [variant |-> "build", middlewares |-> <<>>,
                              actionFn |-> action]),
     ret |-> Len(bs) + 1]

legacyUse(bs, b, middleware) ==
    [builders |-> [bs EXCEPT ![b].middlewares = Append(@, middleware)],
     ret |-> b]

build(bs, b) ==
    [variant |-> "build", middlewares |-> <<>>, src |-> b,
     handler |-> bs[b].actionFn]

\* The middleware array an action closes over, as it reads at call time.
ActionMiddlewares(bs, a) ==
    IF a.src = 0 THEN a.middlewares ELSE bs[a.src].middlewares

RECURSIVE UseAll(_, _, _)
UseAll(bs, b, ms) ==
    IF ms = <<>> THEN [builders |-> bs, ret |-> b]
    ELSE LET r == use(bs, b, Head(ms))
         IN  UseAll(r.builders, r.ret, Tail(ms))

(***************************************************************************)
(* The code of the middleware and handlers used as inputs.  Each returns  *)
(* what the function does next: call next, return a Result, or throw.     *)
(***************************************************************************)
CallNextD(mode, key, val, a) ==
    [op |-> "next", mode |-> mode, key |-> key, val |-> val, args |-> a]

ReturnD(r) == [op |-> "return", result |-> r]

ThrowD(e) == [op |-> "throw", error |-> e]

Transform(a) == a + 1

ValidToken(a) == a % 2 = 1

Body(fn, pc, calls, res, a, i) ==
    IF pc = "raised" THEN
        IF fn = "catcher" THEN ReturnD(error(res.value, "CAUGHT"))
        ELSE ThrowD(res.value)
    ELSE IF pc = "resumed" THEN
        CASE fn = "twice" /\ calls = 1 ->
                 CallNextD("spread", "user", Entry("again", i), a)
          [] fn = "mask" ->
                 ReturnD(IF res.value.ok THEN res.value
                         ELSE error("Something went wrong", "MASKED"))
          [] fn = "lateThrow" -> ThrowD("late")
          [] OTHER -> ReturnD(res.value)
    ELSE
        CASE fn = "withUser" -> CallNextD("spread", "user", Entry("alice", i), a)
          [] fn = "withDb" -> CallNextD("spread", "db", Entry("pg", i), a)
          [] fn = "withAuth" ->
                 IF ValidToken(a)
                 THEN CallNextD("spread", "user", Entry("auth-user", i), a)
                 ELSE ReturnD(error("Unauthorized", "UNAUTHORIZED"))
          [] fn = "mutateCtx" -> CallNextD("same", "tmp", Entry("scratch", i), a)
          [] fn = "dropCtx" -> CallNextD("fresh", "", Absent, a)
          [] fn = "twice" -> CallNextD("spread", "user", Entry("once", i), a)
          [] fn = "withTransform" -> CallNextD("none", "", Absent, Transform(a))
          [] fn = "deny" -> ReturnD(error("Denied", "DENIED"))
          [] fn = "thrower" -> ThrowD("boom")
          [] OTHER -> CallNextD("none", "", Absent, a)

HandlerBody(h, c, a) ==
    CASE h = "okHandler" -> ReturnD(success([input |-> a, user |-> c["user"].v]))
      [] h = "failHandler" -> ReturnD(error("Not found", "NOT_FOUND"))
      [] h = "okAction" -> ReturnD(success([value |-> a]))
      [] h = "failAction" -> ReturnD(error("Failed", "FAIL_CODE"))
      [] h = "throwAction" -> ThrowD("action crashed")
      [] OTHER -> ThrowD("handler crashed")

\* The context object a context-aware function hands to next.
PassedCtx(h, d, ctx, i) ==
    CASE d.mode = "spread" -> Alloc(h, i, [CtxAt(h, ctx) EXCEPT ![d.key] = d.val])
      [] d.mode = "same" /\ IsRef(h, ctx) ->
             [heap |-> [h EXCEPT ![ctx[1]][ctx[2]][d.key] = d.val], ref |-> ctx]
      [] d.mode = "fresh" -> Alloc(h, i, EmptyCtx)
      [] OTHER -> [heap |-> h, ref |-> NoCtx]

(***************************************************************************)
(* The flat API: applyMiddleware, composeMiddleware and the middleware    *)
(* factories withZodValidation and withLogging.  A middleware made by a   *)
(* factory carries the variables its closure captured.                    *)
(***************************************************************************)
\* Argument positions that hold no value of the caller's.
Undefined == -1

ObjectArg == -2

\* The error object of a failed parse; errors and message are both optional.
ValidationError(hasErrors, errors, hasMessage, message) ==
    [hasErrors |-> hasErrors, errors |-> errors, hasMessage |-> hasMessage,
     message |-> message]

NoError == ValidationError(FALSE, <<>>, FALSE, "")

\* A schema accepts all inputs, the odd ones, or none, and reports its error.
ValidationSchema(accepts, err) == [accepts |-> accepts, error |-> err]

\* The value a schema produces from a valid input (coerced, defaults filled).
Parsed(data) == data + 2

safeParse(schema, data) ==
    IF schema.accepts = "all" \/ (schema.accepts = "odd" /\ data % 2 = 1)
    THEN [success |-> TRUE, data |-> Parsed(data), error |-> NoError]
    ELSE [success |-> FALSE, data |-> Undefined, error |-> schema.error]

WithValidationOptions(hasCode, code, hasFormat) ==
    [hasCode |-> hasCode, code |-> code, hasFormat |-> hasFormat]

\* The formatter callers pass in the tests: "Custom: " and the first issue.
formatError(err) ==
    IF err.hasErrors /\ Len(err.errors) >= 1 /\ err.errors[1] = "Name is required"
    THEN "Custom: Name is required"
    ELSE "Custom: undefined"

\* Faulty variant: no default for the code.
withZodValidationNoDefault(schema, options) ==
    [fn |-> "withZodValidation", marker |-> FALSE, schema |-> schema,
     code |-> IF options.hasCode THEN options.code ELSE "",
     formatError |-> options.hasFormat, options |-> options]

withZodValidation(schema, options) ==
    [fn |-> "withZodValidation", marker |-> FALSE, schema |-> schema,
     code |-> IF options.hasCode THEN options.code ELSE "VALIDATION_ERROR",
     formatError |-> options.hasFormat, options |-> options]

\* Faulty variant: the fallbacks use || and the top-level message comes first.
ValidationMessageLoose(mw, err) ==
    IF mw.formatError THEN formatError(err)
    ELSE IF err.hasMessage /\ err.message # "" THEN err.message
    ELSE IF err.hasErrors /\ Len(err.errors) >= 1 /\ err.errors[1] # "" THEN err.errors[1]
    ELSE "Validation failed"

ValidationMessage(mw, err) ==
    IF mw.formatError THEN formatError(err)
    ELSE IF err.hasErrors /\ Len(err.errors) >= 1 THEN err.errors[1]
    ELSE IF err.hasMessage THEN err.message
    ELSE "Validation failed"

\* Faulty variant: a failed parse is reported but the input is passed on.
ValidationBodyIgnoresFailure(mw, pc, res, input) ==
    IF pc = "raised" THEN ThrowD(res.value)
    ELSE IF pc = "resumed" THEN ReturnD(res.value)
    ELSE CallNextD("none", "", Absent, input)

\* Faulty variant: next is given the original input.
ValidationBodyPassesInput(mw, pc, res, input) ==
    IF pc = "raised" THEN ThrowD(res.value)
    ELSE IF pc = "resumed" THEN ReturnD(res.value)
    ELSE LET result == safeParse(mw.schema, input)
         IN  IF ~result.success
             THEN ReturnD(error(ValidationMessage(mw, result.error), mw.code))
             ELSE CallNextD("none", "", Absent, input)

ValidationBody(mw, pc, res, input) ==
    IF pc = "raised" THEN ThrowD(res.value)
    ELSE IF pc = "resumed" THEN ReturnD(res.value)
    ELSE LET result == safeParse(mw.schema, input)
         IN  IF ~result.success
             THEN ReturnD(error(ValidationMessage(mw, result.error), mw.code))
             ELSE CallNextD("none", "", Absent, result.data)

\* A logger says which of its three callbacks are supplied.
Logger(onCall, onSuccess, onError) ==
    [onCall |-> onCall, onSuccess |-> onSuccess, onError |-> onError]

withLogging(logger) == [fn |-> "withLogging", marker |-> FALSE, logger |-> logger]

\* Faulty variant: a Failure is rebuilt from its message only.
LoggingBodyRebuilds(mw, pc, res, params) ==
    IF pc = "raised" THEN ThrowD(res.value)
    ELSE IF pc = "resumed"
         THEN ReturnD(IF res.value.ok THEN res.value ELSE error(res.value.message, ""))
    ELSE CallNextD("none", "", Absent, params)

LoggingBody(mw, pc, res, params) ==
    IF pc = "raised" THEN ThrowD(res.value)
    ELSE IF pc = "resumed" THEN ReturnD(res.value)
    ELSE CallNextD("none", "", Absent, params)

CallbackOf(cb, params, payload) == [cb |-> cb, params |-> params, payload |-> payload]

\* Faulty variant: onError runs after every call, whatever the Result.
LoggerCallsAlwaysError(mw, pc, res, params) ==
    IF pc = "entered"
    THEN IF mw.logger.onCall THEN <<CallbackOf("onCall", params, <<>>)>> ELSE <<>>
    ELSE IF pc = "resumed"
    THEN (IF res.value.ok /\ mw.logger.onSuccess
          THEN <<CallbackOf("onSuccess", params, <<res.value.data>>)>> ELSE <<>>)
         \o (IF mw.logger.onError
             THEN <<CallbackOf("onError", params, <<"", "">>)>> ELSE <<>>)
    ELSE <<>>

\* The logger callbacks the middleware invokes at this point of its body.
LoggerCalls(mw, pc, res, params) ==
    IF pc = "entered"
    THEN IF mw.logger.onCall THEN <<CallbackOf("onCall", params, <<>>)>> ELSE <<>>
    ELSE IF pc = "resumed"
    THEN IF res.value.ok
         THEN IF mw.logger.onSuccess
              THEN <<CallbackOf("onSuccess", params, <<res.value.data>>)>> ELSE <<>>
         ELSE IF mw.logger.onError
              THEN <<CallbackOf("onError", params,
                                <<res.value.message, res.value.code>>)>>
              ELSE <<>>
    ELSE <<>>

composeMiddleware(middleware) ==
    [fn |-> "composeMiddleware", marker |-> FALSE, middleware |-> middleware]

ComposeBody(mw, pc, res, params) ==
    IF pc = "raised" THEN ThrowD(res.value)
    ELSE IF pc = "resumed" THEN ReturnD(res.value)
    ELSE CallNextD("none", "", Absent, params)

\* Middleware made by a factory of the library (it has closure variables).
Library(mw) == DOMAIN mw # {"fn", "marker"}

LibraryBody(mw, pc, res, a) ==
    CASE mw.fn = "withZodValidation" -> ValidationBody(mw, pc, res, a)
      [] mw.fn = "withLogging" -> LoggingBody(mw, pc, res, a)
      [] OTHER -> ComposeBody(mw, pc, res, a)

\* Base actions wrapped by the flat API (they take the arguments only).
BaseActions == {"okAction", "failAction", "throwAction"}

\* Faulty variant: a Failure unwraps to undefined instead of throwing.
unwrapLenient(result) ==
    IF result.ok THEN Returned(result.data) ELSE Returned(Undefined)

unwrap(result) ==
    IF result.ok THEN Returned(result.data)
    ELSE Raised([name |-> "Error", message |-> result.message])

(***************************************************************************)
(* The Result helpers and the serverAction wrapper.                        *)
(***************************************************************************)
\* The code of a Failure built without one: error(message).
NoCode == "undefined"

isSuccess(result) == result.ok = TRUE

\* Faulty variant: only a Failure that carries a code counts as an error.
isErrorWithCode(result) == result.ok = FALSE /\ result.code # NoCode

isError(result) == result.ok = FALSE

\* Faulty variant: a Failure makes the helper throw like unwrap.
unwrapOrThrows(result, defaultValue) ==
    IF result.ok THEN Returned(result.data)
    ELSE Raised([name |-> "Error", message |-> result.message])

unwrapOr(result, defaultValue) ==
    IF result.ok THEN Returned(result.data) ELSE Returned(defaultValue)

\* Values a function may throw: an instance of a class, with the fields read from it.
Thrown(class, name, message, code) ==
    [class |-> class, name |-> name, message |-> message, code |-> code]

\* new HandledError(message, code): the name is the one inherited from Error.
HandledError(message, code) == Thrown("HandledError", "Error", message, code)

\* An Error whose name was set by the thrower.
NewError(name, message) == Thrown("Error", name, message, NoCode)

\* A thrown object that is not an Error, though it has a message and a name.
NonError == Thrown("Object", "Raw", "raw failure", NoCode)

InstanceOfError(err) == err.class \in {"Error", "HandledError"}

InstanceOfHandledError(err) == err.class = "HandledError"

toServerActionError(err) == error(err.message, err.code)

\* options.onError is absent, returns, or throws what it was given.
OnErrorOptions == {"absent", "returns", "throws"}

ServerActionOptions(onError) == [onError |-> onError]

\* A server action as the hook receives it: fn itself, or fn wrapped by serverAction.
RawAction == [wrapper |-> "none", options |-> ServerActionOptions("absent")]

serverAction(options) == [wrapper |-> "serverAction", options |-> options]

\* Faulty variant: any thrown value is turned into a Failure with its own message.
ServerActionBodyLeaks(options, o) ==
    IF o.kind = "return" THEN Returned(success(o.value))
    ELSE IF options.onError = "throws" THEN Raised(o.value)
    ELSE Returned(toServerActionError(o.value))

\* What the wrapper's promise settles with once fn has settled with o.
ServerActionBody(options, o) ==
    IF o.kind = "return" THEN Returned(success(o.value))
    ELSE IF options.onError = "throws" THEN Raised(o.value)
    ELSE IF InstanceOfHandledError(o.value) THEN Returned(toServerActionError(o.value))
    ELSE Returned(error("An unexpected error occurred", "UNKNOWN_ERROR"))

\* Did the wrapper call options.onError with what fn threw?
ServerActionReports(options, o) == o.kind = "throw" /\ options.onError # "absent"

\* How the promise of one call of the action settles, given what fn did.
ActionOutcome(action, o) ==
    IF action.wrapper = "serverAction" THEN ServerActionBody(action.options, o) ELSE o

(***************************************************************************)
(* The React hook useServerAction: its state, the executions it started   *)
(* and the callbacks run for each.  Payloads, messages and codes are      *)
(* strings; Null is the value null, which no payload, message or code     *)
(* equals.  The field recent remembers the payload of the most recent     *)
(* Success handled since the last reset.                                  *)
(***************************************************************************)
Null == "null"

\* The hook's input: the action and which optional callbacks were supplied.
UseServerActionInput(action, onSuccess, onError, onSettled) ==
    [action |-> action, onSuccess |-> onSuccess, onError |-> onError,
     onSettled |-> onSettled]

\* A callback run for execution id, with the arguments it was given.
HookEv(e, id, data, message, code) ==
    [ev |-> e, id |-> id, data |-> data, message |-> message, code |-> code]

\* callbacksRef.current.cb?.(...): the call happens when cb was supplied.
Called(input, cb, e) == IF input[cb] THEN <<e>> ELSE <<>>

\* The state of the first render.
useServerAction(input) ==
    [mounted |-> TRUE, input |-> input, isPending |-> FALSE, error |-> Null,
     errorCode |-> Null, data |-> Null, isSuccess |-> FALSE, isError |-> FALSE,
     execs |-> <<>>, recent |-> Null]

\* No component renders the hook.
NoHook ==
    [useServerAction(UseServerActionInput(RawAction, FALSE, FALSE, FALSE))
        EXCEPT !.mounted = FALSE]

\* res.code ?? null
OrNull(code) == IF code = NoCode THEN Null ELSE code

\* Faulty variant: a Failure also clears the data of an earlier Success.
handleResultClearsData(h, id, res) ==
    IF ~h.mounted THEN h
    ELSE IF res.ok
    THEN [h EXCEPT !.data = res.data, !.error = Null, !.errorCode = Null,
                   !.isSuccess = TRUE, !.isError = FALSE,
                   !.execs[id].calls = @ \o Called(h.input, "onSuccess",
                                                 HookEv("onSuccess", id, res.data, Null, Null))
                                       \o Called(h.input, "onSettled",
                                                 HookEv("onSettled", id, Null, Null, Null))]
    ELSE [h EXCEPT !.data = Null, !.error = res.message, !.errorCode = OrNull(res.code),
                   !.isSuccess = FALSE, !.isError = TRUE,
                   !.execs[id].calls = @ \o Called(h.input, "onError",
                                                 HookEv("onError", id, Null, res.message, res.code))
                                       \o Called(h.input, "onSettled",
                                                 HookEv("onSettled", id, Null, Null, Null))]

\* Faulty variant: onSettled runs only after onSuccess.
handleResultSettlesOnSuccess(h, id, res) ==
    IF ~h.mounted THEN h
    ELSE IF res.ok
    THEN [h EXCEPT !.data = res.data, !.error = Null, !.errorCode = Null,
                   !.isSuccess = TRUE, !.isError = FALSE,
                   !.execs[id].calls = @ \o Called(h.input, "onSuccess",
                                                 HookEv("onSuccess", id, res.data, Null, Null))
                                       \o Called(h.input, "onSettled",
                                                 HookEv("onSettled", id, Null, Null, Null))]
    ELSE [h EXCEPT !.error = res.message, !.errorCode = OrNull(res.code),
                   !.isSuccess = FALSE, !.isError = TRUE,
                   !.execs[id].calls = @ \o Called(h.input, "onError",
                                                 HookEv("onError", id, Null, res.message, res.code))]

\* Faulty variant: a Success leaves the error of an earlier Failure in place.
handleResultKeepsError(h, id, res) ==
    IF ~h.mounted THEN h
    ELSE IF res.ok
    THEN [h EXCEPT !.data = res.data,
                   !.isSuccess = TRUE, !.isError = FALSE,
                   !.execs[id].calls = @ \o Called(h.input, "onSuccess",
                                                 HookEv("onSuccess", id, res.data, Null, Null))
                                       \o Called(h.input, "onSettled",
                                                 HookEv("onSettled", id, Null, Null, Null))]
    ELSE [h EXCEPT !.error = res.message, !.errorCode = OrNull(res.code),
                   !.isSuccess = FALSE, !.isError = TRUE,
                   !.execs[id].calls = @ \o Called(h.input, "onError",
                                                 HookEv("onError", id, Null, res.message, res.code))
                                       \o Called(h.input, "onSettled",
                                                 HookEv("onSettled", id, Null, Null, Null))]

\* The action of execution id resolved with res.
handleResult(h, id, res) ==
    IF ~h.mounted THEN h
    ELSE IF res.ok
    THEN [h EXCEPT !.data = res.data, !.error = Null, !.errorCode = Null,
                   !.isSuccess = TRUE, !.isError = FALSE,
                   !.execs[id].calls = @ \o Called(h.input, "onSuccess",
                                                 HookEv("onSuccess", id, res.data, Null, Null))
                                       \o Called(h.input, "onSettled",
                                                 HookEv("onSettled", id, Null, Null, Null))]
    ELSE [h EXCEPT !.error = res.message, !.errorCode = OrNull(res.code),
                   !.isSuccess = FALSE, !.isError = TRUE,
                   !.execs[id].calls = @ \o Called(h.input, "onError",
                                                 HookEv("onError", id, Null, res.message, res.code))
                                       \o Called(h.input, "onSettled",
                                                 HookEv("onSettled", id, Null, Null, Null))]

\* Faulty variant: every exception is reported the way a non-Error is.
ExceptionFailureGeneric(err) == error("Unknown error", "UNKNOWN_ERROR")

\* The message and code the hook derives from what the action threw.
ExceptionFailure(err) ==
    error(IF InstanceOfError(err) THEN err.message ELSE "Unknown error",
          IF InstanceOfError(err) THEN err.name ELSE "UNKNOWN_ERROR")

\* Faulty variant: the exception is handled whether or not the component is mounted.
handleExceptionUnmounted(h, id, err) ==
    LET f == ExceptionFailure(err)
    IN  [h EXCEPT !.error = f.message, !.errorCode = f.code,
                  !.isSuccess = FALSE, !.isError = TRUE,
                  !.execs[id].calls = @ \o Called(h.input, "onError",
                                                HookEv("onError", id, Null, f.message, f.code))
                                      \o Called(h.input, "onSettled",
                                                HookEv("onSettled", id, Null, Null, Null))]

\* The action of execution id rejected with err.
handleException(h, id, err) ==
    IF ~h.mounted THEN h
    ELSE LET f == ExceptionFailure(err)
         IN  [h EXCEPT !.error = f.message, !.errorCode = f.code,
                       !.isSuccess = FALSE, !.isError = TRUE,
                       !.execs[id].calls = @ \o Called(h.input, "onError",
                                                     HookEv("onError", id, Null, f.message, f.code))
                                           \o Called(h.input, "onSettled",
                                                     HookEv("onSettled", id, Null, Null, Null))]

\* What the function on the server does in one call: it builds a Result with
\* success or error, resolves with a payload, or throws.
Does(what, data, message, code, err) ==
    [do |-> what, data |-> data, message |-> message, code |-> code, error |-> err]

NotCalled == Does("none", Null, Null, NoCode, NonError)

\* What the promise of that call settles with.
FnOutcome(b) ==
    CASE b.do = "success" -> Returned(success(b.data))
      [] b.do = "error" -> Returned(error(b.message, b.code))
      [] b.do = "resolve" -> Returned(b.data)
      [] OTHER -> Raised(b.error)

\* One execution: how it was started, which earlier executions were still in
\* flight then, how far it got, what the function did, what the action
\* settled with, what executeAsync resolved with, what its caller read from
\* that, and the callbacks run for it.
\* The executions of the hook that have not settled.
InFlight(h) == {id \in DOMAIN h.execs : h.execs[id].status # "settled"}

NotInspected ==
    [isSuccess |-> FALSE, isError |-> FALSE, default |-> Null, unwrapOr |-> NoOutcome]

Execution(via, inFlight) ==
    [via |-> via, inFlight |-> inFlight, status |-> "called", fn |-> NotCalled, outcome |-> NoOutcome,
     returned |-> NoOutcome, seen |-> NotInspected, calls |-> <<>>]

\* startTransition(callback): the transition is pending from the call on.
\* Only execute wraps the call of the action in one.
startTransition(h, via) == IF via = "execute" THEN TRUE ELSE h.isPending

\* Faulty variant: starting an execution leaves the state of the previous one.
StartKeepsState(h, via) ==
    [h EXCEPT !.isPending = startTransition(h, via),
              !.execs = Append(@, Execution(via, InFlight(h)))]

\* Faulty variant: starting an execution also clears data.
StartClearsData(h, via) ==
    [h EXCEPT !.error = Null, !.errorCode = Null, !.data = Null,
              !.isSuccess = FALSE, !.isError = FALSE,
              !.isPending = startTransition(h, via),
              !.execs = Append(@, Execution(via, InFlight(h)))]

\* The synchronous part of execute and executeAsync: clear, then call the action.
Start(h, via) ==
    [h EXCEPT !.error = Null, !.errorCode = Null,
              !.isSuccess = FALSE, !.isError = FALSE,
              !.isPending = startTransition(h, via),
              !.execs = Append(@, Execution(via, InFlight(h)))]

\* The value the promise of executeAsync resolves with.
AsyncResult(o) ==
    IF o.kind = "return" THEN Returned(o.value) ELSE Returned(ExceptionFailure(o.value))

\* The continuation of execution id: then(handleResult).catch(handleException)
\* for execute, the rest of the try/catch for executeAsync.
Continue(h, id) ==
    LET x == h.execs[id]
        g == IF x.outcome.kind = "return" THEN handleResult(h, id, x.outcome.value)
             ELSE handleException(h, id, x.outcome.value)
    IN  [g EXCEPT !.execs[id].status = "settled",
                  !.execs[id].returned =
                      IF x.via = "executeAsync" THEN AsyncResult(x.outcome) ELSE NoOutcome]

\* Faulty variant: reset leaves the data.
resetKeepsData(h) ==
    [h EXCEPT !.error = Null, !.errorCode = Null,
              !.isSuccess = FALSE, !.isError = FALSE]

reset(h) ==
    [h EXCEPT !.error = Null, !.errorCode = Null, !.data = Null,
              !.isSuccess = FALSE, !.isError = FALSE]

(***************************************************************************)
(* The chain an invocation assembles and runs.                            *)
(***************************************************************************)
InvIds == {1, 2}

IdleInv ==
    [status |-> "idle", action |-> 0, args |-> 0, variant |-> "none",
     chain |-> <<>>, handler |-> NoHandler, stack |-> <<>>, log |-> <<>>,
     result |-> NoOutcome, unwrapped |-> NoOutcome]

\* Links outermost first: each fold step wraps the continuation built so far.
Wrap(mw, next) == <<mw>> \o next

\* Faulty variant: folds from the first attached middleware, so the last one ends outermost.
RECURSIVE reduceLeftFold(_, _)
reduceLeftFold(middlewares, next) ==
    IF middlewares = <<>> THEN next
    ELSE reduceLeftFold(Tail(middlewares), Wrap(Head(middlewares), next))

RECURSIVE reduceRight(_, _)
reduceRight(middlewares, next) ==
    IF middlewares = <<>> THEN next
    ELSE reduceRight(SubSeq(middlewares, 1, Len(middlewares) - 1),
                     Wrap(middlewares[Len(middlewares)], next))

\* Faulty variant: one seed object is created with the action and reused by every call.
SeedContextShared(h, i) ==
    IF IsRef(h, <<1, 1>>) THEN [heap |-> h, ref |-> <<1, 1>>]
    ELSE Alloc(h, 1, EmptyCtx)

\* The empty context object a call starts with.
SeedContext(h, i) == Alloc(h, i, EmptyCtx)

\* Faulty variant: every middleware is dispatched as context-aware.
CtxStyleAlways(variant, mw) == TRUE

\* Is the middleware invoked as (next, ctx, ...args)?
CtxStyle(variant, mw) ==
    variant = "build" \/ (variant = "handle" /\ isContextMiddleware(mw))

\* Faulty variant: the context a middleware passes to next is ignored.
ChildCtxKeepsOld(style, ctx, newCtx) == ctx

\* The context the continuation after a middleware is called with.
ChildCtx(style, ctx, newCtx) == IF style THEN newCtx ELSE ctx

\* The context argument handed to the link's function (none for plain).
GivenCtx(style, ctx) == IF style THEN ctx ELSE NoCtx

\* Faulty variant: the wrapper rebuilds a Failure from its message and loses the code.
AsyncReturnDropsCode(o) ==
    IF o.kind = "return" /\ ~o.value.ok
    THEN Returned(error(o.value.message, ""))
    ELSE o

\* Faulty variant: the wrapper wraps the Result it got into a new Success.
AsyncReturnRewraps(o) ==
    IF o.kind = "return" THEN Returned(success(o.value)) ELSE o

\* Faulty variant: the wrapper catches what the link threw and returns a Failure.
AsyncReturnCatches(o) ==
    IF o.kind = "throw"
    THEN Returned(error("An unexpected error occurred", "UNKNOWN_ERROR"))
    ELSE o

\* An async wrapper returning a promise settles the way that promise does.
AsyncReturn(o) ==
    IF o.kind = "return" THEN Returned(o.value) ELSE Raised(o.value)

Frame(ch, k, c, a) ==
    [chain |-> ch, pos |-> k, ctx |-> c, args |-> a, pc |-> "entered",
     calls |-> 0, res |-> NoOutcome]

\* History of one call: which link was entered with what, and how it ended.
Ev(e, k, l, c, g, keys, a, n, o) ==
    [ev |-> e, pos |-> k, link |-> l, ctx |-> c, given |-> g, keys |-> keys,
     args |-> a, calls |-> n, out |-> o]

IsHandlerPos(v, k) == k > Len(v.chain)

\* Faulty variant: the fold leaves the last middleware out and runs the
\* handler in its place.
AtHandlerEarly(f) == f.pos >= Len(f.chain)

\* The continuation a frame was called through has no middleware left.
AtHandler(f) == f.pos > Len(f.chain)

LinkStyle(v, f) ==
    IF AtHandler(f) THEN v.variant # "apply" ELSE CtxStyle(v.variant, f.chain[f.pos])

LinkName(v, f) == IF AtHandler(f) THEN v.handler ELSE f.chain[f.pos].fn

EnterEv(v, h, f) ==
    Ev("enter", f.pos, LinkName(v, f), f.ctx, GivenCtx(LinkStyle(v, f), f.ctx),
       CtxAt(h, f.ctx), f.args, 0, NoOutcome)

MarkEv(e, v, f, o) ==
    Ev(e, f.pos, LinkName(v, f), f.ctx, NoCtx, EmptyCtx, f.args, f.calls, o)

Top(v) == v.stack[Len(v.stack)]

Decision(v, h, i) ==
    LET f == Top(v)
    IN  IF AtHandler(f)
        THEN HandlerBody(v.handler, CtxAt(h, f.ctx), f.args)
        ELSE IF Library(f.chain[f.pos])
        THEN LibraryBody(f.chain[f.pos], f.pc, f.res, f.args)
        ELSE Body(f.chain[f.pos].fn, f.pc, f.calls, f.res, f.args, i)

AfterEvs(v, f) ==
    IF f.pc = "resumed" THEN <<MarkEv("after", v, f, f.res)>> ELSE <<>>

\* The logger callbacks a logging middleware runs in this step of its body.
CallbackEvs(v, f) ==
    IF AtHandler(f) \/ ~Library(f.chain[f.pos]) THEN <<>>
    ELSE IF f.chain[f.pos].fn # "withLogging" THEN <<>>
    ELSE LET cs == LoggerCalls(f.chain[f.pos], f.pc, f.res, f.args)
         IN  [j \in 1..Len(cs) |->
                 Ev(cs[j].cb, f.pos, "withLogging", f.ctx, NoCtx, EmptyCtx,
                    cs[j].params, f.calls,
                    [kind |-> "callback", value |-> cs[j].payload])]

\* Faulty variant: the composed middleware are folded from the first one.
composeChainLeft(middleware, next) == reduceLeftFold(middleware, next)

\* The chain a composed middleware folds around the next it was given.
composeChain(middleware, next) == reduceRight(middleware, next)

\* The links below a frame: a composed middleware puts its own in front.
ChildChain(f) ==
    LET mw == f.chain[f.pos]
    IN  IF Library(mw) /\ mw.fn = "composeMiddleware"
        THEN SubSeq(f.chain, 1, f.pos)
             \o composeChain(mw.middleware, SubSeq(f.chain, f.pos + 1, Len(f.chain)))
        ELSE f.chain

\* Does the function read its parameters as (next, ctx, ...args)?
CtxShaped(d) == d.mode # "none"

\* Faulty variant: the context branch calls the continuation with the new
\* context only, without the parameters next was given.
NextArgsCtxOnly(style, d) ==
    CASE style /\ CtxShaped(d) -> Undefined
      [] style /\ ~CtxShaped(d) -> Undefined
      [] ~style /\ CtxShaped(d) -> ObjectArg
      [] OTHER -> d.args

\* The arguments the next link is called with.  A function called in the
\* style it was not written for puts its values in the wrong positions.
NextArgs(style, d) ==
    CASE style /\ ~CtxShaped(d) -> Undefined
      [] ~style /\ CtxShaped(d) -> ObjectArg
      [] OTHER -> d.args

\* Faulty variant: the engine merges the keys of the context the middleware
\* received into the one it passed to next.
NextCtxMerged(h, style, d, f, i) ==
    IF CtxShaped(d)
    THEN LET p == PassedCtx(h, d, IF style THEN f.ctx ELSE NoCtx, i)
             old == CtxAt(h, IF style THEN f.ctx ELSE NoCtx)
             new == CtxAt(p.heap, p.ref)
         IN  Alloc(p.heap, i, [k \in Keys |-> IF new[k] # Absent THEN new[k] ELSE old[k]])
    ELSE [heap |-> h, ref |-> IF style /\ d.args = f.args THEN f.ctx ELSE NoCtx]

\* What the function hands over in the context position of next.
NextCtx(h, style, d, f, i) ==
    IF CtxShaped(d)
    THEN PassedCtx(h, d, IF style THEN f.ctx ELSE NoCtx, i)
    ELSE [heap |-> h, ref |-> IF style /\ d.args = f.args THEN f.ctx ELSE NoCtx]

\* Faulty variant: the promise of the outermost wrapper is never settled.
DeliverUnsettled(v, o, evs) ==
    LET n == Len(v.stack)
        out == AsyncReturn(o)
    IN  IF n = 1
        THEN v
        ELSE [v EXCEPT !.stack = Append(SubSeq(@, 1, n - 2),
                                        [v.stack[n - 1] EXCEPT
                                            !.pc = IF out.kind = "return"
                                                   THEN "resumed" ELSE "raised",
                                            !.res = out]),
                       !.log = @ \o evs]

\* Faulty variant: the result of a link is handed past the link that called
\* it, to the one before, which resumes while its own callee is still open.
DeliverPastCaller(v, o, evs) ==
    LET n == Len(v.stack)
        out == AsyncReturn(o)
    IN  IF n = 1
        THEN [v EXCEPT !.stack = <<>>,
                       !.log = @ \o evs,
                       !.status = IF out.kind = "return" THEN "resolved" ELSE "rejected",
                       !.result = out]
        ELSE IF n = 2
        THEN [v EXCEPT !.stack = <<[v.stack[1] EXCEPT
                                       !.pc = IF out.kind = "return"
                                              THEN "resumed" ELSE "raised",
                                       !.res = out]>>,
                       !.log = @ \o evs]
        ELSE [v EXCEPT !.stack = Append(SubSeq(@, 1, n - 3),
                                        [v.stack[n - 2] EXCEPT
                                            !.pc = IF out.kind = "return"
                                                   THEN "resumed" ELSE "raised",
                                            !.res = out])
                                 \o <<v.stack[n - 1]>>,
                       !.log = @ \o evs]

\* The top link finished with outcome o: its caller resumes, or the call settles.
Deliver(v, o, evs) ==
    LET n == Len(v.stack)
        out == AsyncReturn(o)
    IN  IF n = 1
        THEN [v EXCEPT !.stack = <<>>,
                       !.log = @ \o evs,
                       !.status = IF out.kind = "return" THEN "resolved" ELSE "rejected",
                       !.result = out]
        ELSE [v EXCEPT !.stack = Append(SubSeq(@, 1, n - 2),
                                        [v.stack[n - 1] EXCEPT
                                            !.pc = IF out.kind = "return"
                                                   THEN "resumed" ELSE "raised",
                                            !.res = out]),
                       !.log = @ \o evs]

\* Faulty variant: the first middleware of the list ends innermost.
applyMiddlewareLeft(action, middleware) ==
    [variant |-> "apply", middlewares |-> reduceLeftFold(middleware, <<>>), src |-> 0,
     handler |-> action, list |-> middleware]

\* The callable applyMiddleware returns: the list folded around the action
\* (list records the array that was passed in).
applyMiddleware(action, middleware) ==
    [variant |-> "apply", middlewares |-> reduceRight(middleware, <<>>), src |-> 0,
     handler |-> action, list |-> middleware]

\* The links a call of the action runs through, outermost first.
ChainOf(bs, act) ==
    IF act.variant = "apply" THEN act.middlewares
    ELSE reduceRight(ActionMiddlewares(bs, act), <<>>)

Invoke(i, n, a) ==
    /\ inv[i].status = "idle"
    /\ n \in 1..Len(actions)
    /\ LET act == actions[n]
           s == IF act.variant = "apply" THEN [heap |-> heap, ref |-> NoCtx]
                ELSE SeedContext(heap, i)
           v == [IdleInv EXCEPT !.status = "running", !.action = n, !.args = a,
                                !.variant = act.variant,
                                !.chain = ChainOf(builders, act),
                                !.handler = act.handler]
           f == Frame(v.chain, 1, s.ref, a)
       IN  /\ heap' = s.heap
           /\ inv' = [inv EXCEPT ![i] =
                         [v EXCEPT !.stack = <<f>>,
                                   !.log = <<EnterEv(v, s.heap, f)>>]]
    /\ UNCHANGED <<builders, actions, hook>>

CallNext(i) ==
    /\ inv[i].status = "running"
    /\ LET v == inv[i]
           f == Top(v)
           d == Decision(v, heap, i)
       IN  /\ d.op = "next"
           /\ LET style == CtxStyle(v.variant, f.chain[f.pos])
                  p == NextCtx(heap, style, d, f, i)
                  c == ChildCtx(style, f.ctx, p.ref)
                  n == Len(v.stack)
                  g == Frame(ChildChain(f), f.pos + 1, c, NextArgs(style, d))
              IN  /\ heap' = p.heap
                  /\ inv' = [inv EXCEPT ![i] =
                        [v EXCEPT !.stack = Append([@ EXCEPT ![n].pc = "waiting",
                                                             ![n].calls = @ + 1],
                                                   g),
                                  !.log = @ \o AfterEvs(v, f) \o CallbackEvs(v, f)
                                            \o <<EnterEv(v, p.heap, g)>>]]
    /\ UNCHANGED <<builders, actions, hook>>

Return(i) ==
    /\ inv[i].status = "running"
    /\ LET v == inv[i]
           f == Top(v)
           d == Decision(v, heap, i)
       IN  /\ d.op = "return"
           /\ inv' = [inv EXCEPT ![i] =
                         Deliver(v, Returned(d.result),
                                 AfterEvs(v, f) \o CallbackEvs(v, f)
                                 \o <<MarkEv("return", v, f, Returned(d.result))>>)]
    /\ UNCHANGED <<builders, actions, heap, hook>>

Throw(i) ==
    /\ inv[i].status = "running"
    /\ LET v == inv[i]
           f == Top(v)
           d == Decision(v, heap, i)
       IN  /\ d.op = "throw"
           /\ inv' = [inv EXCEPT ![i] =
                         Deliver(v, Raised(d.error),
                                 AfterEvs(v, f)
                                 \o <<MarkEv(IF f.pc = "raised" THEN "propagate" ELSE "throw",
                                             v, f, Raised(d.error))>>)]
    /\ UNCHANGED <<builders, actions, heap, hook>>

\* The caller passes the Result of a call that returned to unwrap.
Unwrap(i) ==
    /\ inv[i].status = "resolved"
    /\ inv[i].unwrapped = NoOutcome
    /\ inv' = [inv EXCEPT ![i].unwrapped = unwrap(inv[i].result.value)]
    /\ UNCHANGED <<builders, actions, heap, hook>>

(***************************************************************************)
(* Sequential model: one action built by createAction().use(m1)...        *)
(* .use(mN).handle(H), invoked once with any argument.                    *)
(***************************************************************************)
SeqFns == {"withUser", "withDb", "withAuth", "withLogging", "withTransform",
           "deny", "mask", "thrower", "lateThrow", "catcher"}

Init ==
    \E ms \in SeqsUpTo({Mw(fn) : fn \in SeqFns}, MaxLen), h \in Handlers :
        LET c == createAction(<<>>)
            r == UseAll(c.builders, c.ret, ms)
        IN  /\ builders = r.builders
            /\ actions = <<handle(r.builders, r.ret, h)>>
            /\ heap = [i \in InvIds |-> <<>>]
            /\ inv = [i \in InvIds |-> IdleInv]
            /\ hook = NoHook

Next ==
    \/ \E a \in Args : Invoke(1, 1, a)
    \/ CallNext(1)
    \/ Return(1)
    \/ Throw(1)

Spec == Init /\ [][Next]_vars

(***************************************************************************)
(* Reading the history of a call                                           *)
(***************************************************************************)
Settled(v) == v.status \in {"resolved", "rejected"}

IsPrefix(s, t) == Len(s) <= Len(t) /\ s = SubSeq(t, 1, Len(s))

Reverse(s) == [j \in 1..Len(s) |-> s[Len(s) + 1 - j]]

Links(es) == [j \in 1..Len(es) |-> es[j].link]

IsEnter(e) == e.ev = "enter"

\* A link completes its way out: the handler returns, a middleware resumes after next.
IsExit(e) == e.ev = "after" \/ (e.ev = "return" /\ e.link \in Handlers)

\* The links of the action a call runs, in attachment order, handler last.
Attached(v) ==
    LET ms == ActionMiddlewares(builders, actions[v.action])
    IN  [k \in 1..Len(ms) |-> ms[k].fn] \o <<actions[v.action].handler>>

FnsOf(ms) == [k \in 1..Len(ms) |-> ms[k].fn]

ChainFns(v) == {v.chain[k].fn : k \in 1..Len(v.chain)}

\* Middleware that call next exactly once in every call.
OnceFns == {"withUser", "withDb", "withLogging", "withTransform", "mask",
            "lateThrow", "catcher"}

\* Middleware that, having called next, return its Result unchanged.
ForwardFns == {"withUser", "withDb", "withAuth", "withLogging", "withTransform",
               "catcher"}

EnclosingForward(v, k) == \A p \in 1..(k - 1) : v.chain[p].fn \in ForwardFns

\* C1: when every middleware calls next exactly once, the links are entered in
\* attachment order m1..mN, H and the way back out runs in the exact reverse
\* order H, mN..m1: the links that resume do so innermost first, and all of
\* them do once the call has returned and nothing threw.
C1_StackOrder ==
    \A i \in InvIds :
        LET v == inv[i]
        IN  (v.status # "idle" /\ \A k \in 1..(Len(Attached(v)) - 1) : Attached(v)[k] \in OnceFns)
            => LET en == Links(SelectSeq(v.log, IsEnter))
                   ex == Links(SelectSeq(v.log, IsExit))
                   xs == SelectSeq(v.log, IsExit)
               IN  /\ IsPrefix(en, Attached(v))
                   /\ \A a \in 1..Len(xs) :
                          /\ xs[a].link = Attached(v)[xs[a].pos]
                          /\ \A b \in (a + 1)..Len(xs) : xs[b].pos < xs[a].pos
                   /\ (v.status = "resolved" /\ \A j \in 1..Len(v.log) : v.log[j].ev # "throw")
                      => (en = Attached(v) /\ ex = Reverse(Attached(v)))

C1_Witness ==
    /\ inv[1].status = "resolved"
    /\ Attached(inv[1]) = <<"withUser", "withLogging", "withDb", "okHandler">>
    /\ Links(SelectSeq(inv[1].log, IsExit)) = <<"okHandler", "withDb", "withLogging", "withUser">>

\* C2: a middleware at position k that returns a Failure without calling next
\* keeps the handler and every later middleware from being invoked, and with
\* forwarding middleware before it the action returns exactly that Failure.
C2_ShortCircuit ==
    \A i \in InvIds :
        LET v == inv[i]
        IN  \A j \in 1..Len(v.log) :
                LET e == v.log[j]
                IN  (e.ev = "return" /\ ~IsHandlerPos(v, e.pos) /\ e.calls = 0
                     /\ ~e.out.value.ok)
                    => /\ \A m \in 1..Len(v.log) :
                              v.log[m].ev = "enter" => v.log[m].pos <= e.pos
                       /\ (EnclosingForward(v, e.pos) /\ Settled(v))
                          => (v.status = "resolved" /\ v.result = e.out)

C2_Witness ==
    /\ inv[1].status = "resolved"
    /\ FnsOf(inv[1].chain) = <<"withTransform", "withAuth", "withDb">>
    /\ inv[1].result = Returned(error("Unauthorized", "UNAUTHORIZED"))
    /\ \A j \in 1..Len(inv[1].log) : inv[1].log[j].pos <= 2

\* C3: with context-aware A (adds user) attached before context-aware B (adds
\* db), B receives a context containing user and the handler receives both
\* user and db with the values A and B supplied.
C3_ContextAccumulates ==
    \A i \in InvIds :
        LET v == inv[i]
            N == Len(v.chain)
        IN  \A j \in 1..Len(v.log) :
                LET e == v.log[j]
                    afterUser == \E p \in 1..(e.pos - 1) : p <= N /\ v.chain[p].fn = "withUser"
                IN  e.ev = "enter" =>
                      /\ (e.link = "withDb" /\ afterUser)
                         => (e.given = e.ctx /\ "user" \in KeysOf(e.keys))
                      /\ (/\ IsHandlerPos(v, e.pos)
                          /\ \E p, q \in 1..N : p < q /\ v.chain[p].fn = "withUser"
                                                /\ v.chain[q].fn = "withDb"
                          /\ ChainFns(v) \cap CtxFns \subseteq {"withUser", "withDb"})
                         => /\ e.given = e.ctx
                            /\ e.keys["user"] = Entry("alice", i)
                            /\ e.keys["db"] = Entry("pg", i)

C3_Witness ==
    /\ FnsOf(inv[1].chain) = <<"withUser", "withDb">>
    /\ \E j \in 1..Len(inv[1].log) :
          /\ inv[1].log[j].ev = "enter" /\ inv[1].log[j].pos = 3
          /\ KeysOf(inv[1].log[j].keys) = {"user", "db"}

\* C4: a plain middleware is not given the context, and the link after it is
\* delivered exactly the context delivered to the plain middleware's position
\* together with the arguments the plain middleware passed to next.
C4_PlainTransparent ==
    \A i \in InvIds :
        LET v == inv[i]
        IN  \A j \in 1..Len(v.log) :
                LET e == v.log[j]
                IN  /\ (e.ev = "enter" /\ e.link \in PlainFns) => e.given = NoCtx
                    /\ (e.ev = "enter" /\ e.pos > 1 /\ v.chain[e.pos - 1].fn \in PlainFns)
                       => LET m == CHOOSE x \in 1..(j - 1) :
                                      /\ v.log[x].ev = "enter" /\ v.log[x].pos = e.pos - 1
                                      /\ \A y \in (x + 1)..(j - 1) :
                                            ~(v.log[y].ev = "enter" /\ v.log[y].pos = e.pos - 1)
                              up == v.log[m]
                          IN  /\ e.ctx = up.ctx
                              /\ e.keys = up.keys
                              /\ e.args = IF up.link = "withTransform"
                                          THEN Transform(up.args) ELSE up.args

C4_Witness ==
    /\ FnsOf(inv[1].chain) = <<"withUser", "withTransform", "withDb">>
    /\ \E j \in 1..Len(inv[1].log) :
          /\ inv[1].log[j].ev = "enter" /\ inv[1].log[j].pos = 3
          /\ KeysOf(inv[1].log[j].keys) = {"user"}
          /\ inv[1].log[j].args = Transform(inv[1].args)

\* C5: with a handler returning a Success and N >= 0 middleware that each call
\* next once and forward its Result, the action returns that same Success; with
\* N = 0 the handler is called with an empty context and the caller's
\* arguments and the action returns its Result.
C5_SuccessPreserved ==
    \A i \in InvIds :
        LET v == inv[i]
        IN  /\ (/\ Settled(v) /\ v.handler = "okHandler"
                /\ ChainFns(v) \subseteq (ForwardFns \ {"withAuth"}))
               => /\ v.status = "resolved"
                  /\ v.result.value.ok
                  /\ \E j \in 1..Len(v.log) :
                        /\ v.log[j].ev = "return" /\ v.log[j].link = "okHandler"
                        /\ v.result = v.log[j].out
            /\ (v.status # "idle" /\ Len(v.chain) = 0)
               => /\ v.log[1].ev = "enter" /\ v.log[1].link = v.handler
                  /\ KeysOf(v.log[1].keys) = {} /\ v.log[1].args = v.args
                  /\ Settled(v) =>
                        LET d == HandlerBody(v.handler, EmptyCtx, v.args)
                        IN  v.result = IF d.op = "return" THEN Returned(d.result)
                                       ELSE Raised(d.error)

C5_Witness ==
    /\ inv[1].status = "resolved"
    /\ FnsOf(inv[1].chain) = <<"withLogging", "withUser", "catcher">>
    /\ inv[1].result = Returned(success([input |-> inv[1].args, user |-> "alice"]))

\* C6: a Failure returned by the handler or a middleware reaches the caller
\* with its message and code when no enclosing middleware rewrites it, and
\* what a resumed middleware gets from next is what the link below returned.
C6_FailureUnchanged ==
    \A i \in InvIds :
        LET v == inv[i]
        IN  /\ \A j \in 1..Len(v.log) :
                  LET e == v.log[j]
                  IN  (e.ev = "return" /\ ~e.out.value.ok /\ EnclosingForward(v, e.pos)
                       /\ Settled(v))
                      => /\ v.status = "resolved"
                         /\ v.result.value.message = e.out.value.message
                         /\ v.result.value.code = e.out.value.code
            /\ \A n \in 1..Len(v.stack) :
                  LET f == v.stack[n]
                  IN  f.pc = "resumed"
                      => \E j \in 1..Len(v.log) :
                            /\ v.log[j].ev = "return" /\ v.log[j].pos = f.pos + 1
                            /\ \A y \in (j + 1)..Len(v.log) :
                                  v.log[y].ev = "return" => v.log[y].pos # f.pos + 1
                            /\ f.res = v.log[j].out

C6_Witness ==
    /\ inv[1].status = "resolved"
    /\ FnsOf(inv[1].chain) = <<"withUser", "withLogging", "withDb">>
    /\ inv[1].handler = "failHandler"
    /\ inv[1].result = Returned(error("Not found", "NOT_FOUND"))

\* C7: when the handler or a middleware throws and no middleware catches it,
\* the call rejects with that exception: nothing else runs afterwards (no code
\* after next in any enclosing middleware) and no Result is returned.
C7_ThrowPropagates ==
    \A i \in InvIds :
        LET v == inv[i]
        IN  \A j \in 1..Len(v.log) :
                LET e == v.log[j]
                IN  (e.ev = "throw" /\ \A p \in 1..(e.pos - 1) : v.chain[p].fn # "catcher")
                    => /\ \A m \in (j + 1)..Len(v.log) :
                              v.log[m].ev = "propagate" /\ v.log[m].pos < e.pos
                       /\ Settled(v) => (v.status = "rejected" /\ v.result = e.out)

C7_Witness ==
    /\ inv[1].status = "rejected"
    /\ FnsOf(inv[1].chain) = <<"withUser", "withLogging", "withDb">>
    /\ inv[1].result = Raised("handler crashed")
    /\ \A j \in 1..Len(inv[1].log) : inv[1].log[j].ev # "after"

(***************************************************************************)
(* Builder model: builders are created, extended with use and finalized,  *)
(* in both variants of the builder, and a finalized action is called.     *)
(***************************************************************************)
BuildFns == {"withUser", "withDb"}

\* A program imports createAction from one variant of the module.
Imported(variant) == \A b \in DOMAIN builders : builders[b].variant = variant

CreateAction ==
    /\ Imported("handle")
    /\ Len(builders) < MaxBuilders
    /\ builders' = createAction(builders).builders
    /\ UNCHANGED <<actions, heap, inv, hook>>

LegacyCreateAction ==
    /\ Imported("build")
    /\ Len(builders) < MaxBuilders
    /\ builders' = legacyCreateAction(builders, "okHandler").builders
    /\ UNCHANGED <<actions, heap, inv, hook>>

Use(b, fn) ==
    /\ builders[b].variant = "handle"
    /\ Len(builders) < MaxBuilders
    /\ builders' = use(builders, b, Mw(fn)).builders
    /\ UNCHANGED <<actions, heap, inv, hook>>

LegacyUse(b, fn) ==
    /\ builders[b].variant = "build"
    /\ Len(builders[b].middlewares) < MaxUses
    /\ builders' = legacyUse(builders, b, Mw(fn)).builders
    /\ UNCHANGED <<actions, heap, inv, hook>>

Handle(b) ==
    /\ builders[b].variant = "handle"
    /\ Len(actions) < MaxActions
    /\ actions' = Append(actions, handle(builders, b, "okHandler"))
    /\ UNCHANGED <<builders, heap, inv, hook>>

Build(b) ==
    /\ builders[b].variant = "build"
    /\ Len(actions) < MaxActions
    /\ actions' = Append(actions, build(builders, b))
    /\ UNCHANGED <<builders, heap, inv, hook>>

InitBuild ==
    /\ builders = <<>>
    /\ actions = <<>>
    /\ heap = [i \in InvIds |-> <<>>]
    /\ inv = [i \in InvIds |-> IdleInv]
    /\ hook = NoHook

NextBuild ==
    \/ CreateAction
    \/ LegacyCreateAction
    \/ \E b \in DOMAIN builders, fn \in BuildFns : Use(b, fn)
    \/ \E b \in DOMAIN builders, fn \in BuildFns : LegacyUse(b, fn)
    \/ \E b \in DOMAIN builders : Handle(b)
    \/ \E b \in DOMAIN builders : Build(b)
    \/ \E n \in DOMAIN actions : Invoke(1, n, 1)
    \/ CallNext(1)
    \/ Return(1)

SpecBuild == InitBuild /\ [][NextBuild]_vars

\* C8: use(mw) on a builder b returns a new builder and leaves b's own
\* middleware list unchanged (so branches made from b and b itself finalize to
\* actions that do not run each other's middleware).
C8_UseLeavesBuilder ==
    [][\A b \in DOMAIN builders :
           b \in DOMAIN builders' /\ builders'[b].middlewares = builders[b].middlewares]_vars

(***************************************************************************)
(* Interleaved model: one built action (of either builder variant) called *)
(* twice; the two calls interleave at every link boundary.  The middleware *)
(* here also mutate the context in place, drop its keys and call next     *)
(* twice.                                                                 *)
(***************************************************************************)
ConcFns == {"withUser", "mutateCtx", "dropCtx", "twice", "withLogging",
            "withTransform"}

RECURSIVE LegacyUseAll(_, _, _)
LegacyUseAll(bs, b, ms) ==
    IF ms = <<>> THEN [builders |-> bs, ret |-> b]
    ELSE LET r == legacyUse(bs, b, Head(ms))
         IN  LegacyUseAll(r.builders, r.ret, Tail(ms))

InitConc ==
    /\ \/ \E ms \in SeqsUpTo({Mw(fn) : fn \in ConcFns}, MaxConcLen) :
             LET c == createAction(<<>>)
                 r == UseAll(c.builders, c.ret, ms)
             IN  /\ builders = r.builders
                 /\ actions = <<handle(r.builders, r.ret, "okHandler")>>
       \/ \E ms \in SeqsUpTo({Mw(fn) : fn \in ConcFns \cap CtxFns}, MaxConcLen) :
             LET c == legacyCreateAction(<<>>, "okHandler")
                 r == LegacyUseAll(c.builders, c.ret, ms)
             IN  /\ builders = r.builders
                 /\ actions = <<build(r.builders, r.ret)>>
    /\ heap = [i \in InvIds |-> <<>>]
    /\ inv = [i \in InvIds |-> IdleInv]
    /\ hook = NoHook

NextConc ==
    \E i \in InvIds :
        \/ \E a \in Args : Invoke(i, 1, a)
        \/ CallNext(i)
        \/ Return(i)

SpecConc == InitConc /\ [][NextConc]_vars

\* C9: in every call the outermost link receives a context with no keys,
\* whatever keys other calls of the same action added to or set on theirs.
C9_SeedEmpty ==
    \A i \in InvIds :
        inv[i].status # "idle"
        => /\ inv[i].log[1].ev = "enter" /\ inv[i].log[1].pos = 1
           /\ (inv[i].log[1].given = inv[i].log[1].ctx
               \/ inv[i].log[1].link \in PlainFns)
           /\ KeysOf(inv[i].log[1].keys) = {}

C9_Witness ==
    /\ inv[1].status = "resolved"
    /\ FnsOf(inv[1].chain) = <<"mutateCtx", "withUser">>
    /\ KeysOf(CtxAt(heap, inv[1].log[1].ctx)) = {"tmp"}
    /\ inv[2].status = "running"
    /\ KeysOf(inv[2].log[1].keys) = {}

\* The keys a link at position k is given, from the middleware before it.
RECURSIVE ExpectedKeys(_, _, _)
ExpectedKeys(variant, chain, k) ==
    IF k = 1 THEN {}
    ELSE LET up == ExpectedKeys(variant, chain, k - 1)
             fn == chain[k - 1].fn
         IN  CASE ~CtxStyle(variant, chain[k - 1]) -> up
               [] fn \in {"withUser", "withAuth", "twice"} -> up \cup {"user"}
               [] fn = "withDb" -> up \cup {"db"}
               [] fn = "mutateCtx" -> up \cup {"tmp"}
               [] fn = "dropCtx" -> {}
               [] OTHER -> up

RECURSIVE ExpectedArgs(_, _, _)
ExpectedArgs(chain, k, a) ==
    IF k = 1 THEN a
    ELSE LET up == ExpectedArgs(chain, k - 1, a)
         IN  IF chain[k - 1].fn = "withTransform" THEN Transform(up) ELSE up

\* C10: when two calls of the same action interleave, what each link of a call
\* is given follows from that call's own arguments and its own upstream links,
\* and no key written in one call is ever visible in the other.
C10_CallsIsolated ==
    \A i \in InvIds :
        LET v == inv[i]
        IN  /\ \A j \in 1..Len(v.log) :
                  LET e == v.log[j]
                  IN  e.ev = "enter"
                      => /\ \A k \in KeysOf(e.keys) : e.keys[k].by = i
                         /\ KeysOf(e.keys) = ExpectedKeys(v.variant, v.chain, e.pos)
                         /\ e.args = ExpectedArgs(v.chain, e.pos, v.args)
            /\ \A n \in 1..Len(v.stack) :
                  \A k \in KeysOf(CtxAt(heap, v.stack[n].ctx)) :
                      CtxAt(heap, v.stack[n].ctx)[k].by = i

C10_Witness ==
    /\ inv[1].status = "running" /\ inv[2].status = "running"
    /\ inv[1].args # inv[2].args
    /\ FnsOf(inv[1].chain) = <<"mutateCtx", "twice">>
    /\ Len(inv[1].stack) = 3 /\ inv[1].stack[2].calls = 2
    /\ Len(inv[2].stack) = 2
    /\ KeysOf(CtxAt(heap, inv[2].stack[2].ctx)) = {"tmp"}
    /\ KeysOf(CtxAt(heap, inv[1].stack[3].ctx)) = {"tmp", "user"}

(***************************************************************************)
(* Flat model: a list of plain middleware and a base action, given to     *)
(* applyMiddleware and either to the builder or, composed into one        *)
(* middleware, to applyMiddleware again.  The caller awaits the first     *)
(* callable and then calls the second with the same arguments.            *)
(***************************************************************************)
FullLogger == Logger(TRUE, TRUE, TRUE)

OddSchema == ValidationSchema("odd", ValidationError(TRUE, <<"Name is required">>, FALSE, ""))

NoOptions == WithValidationOptions(FALSE, "", FALSE)

FlatMws ==
    {createMiddleware(fn) : fn \in PlainFns}
    \cup {withLogging(FullLogger), withZodValidation(OddSchema, NoOptions)}

InitFlat ==
    \E ms \in SeqsUpTo(FlatMws, MaxFlatLen), A \in BaseActions :
        /\ \/ LET c == createAction(<<>>)
                  r == UseAll(c.builders, c.ret, ms)
              IN  /\ builders = r.builders
                  /\ actions = <<handle(r.builders, r.ret, A), applyMiddleware(A, ms)>>
           \/ /\ builders = <<>>
              /\ actions = <<applyMiddleware(A, <<composeMiddleware(ms)>>),
                             applyMiddleware(A, ms)>>
        /\ heap = [i \in InvIds |-> <<>>]
        /\ inv = [i \in InvIds |-> IdleInv]
        /\ hook = NoHook

NextFlat ==
    \/ \E a \in Args : Invoke(1, 1, a)
    \/ (Settled(inv[1]) /\ Invoke(2, 2, inv[1].args))
    \/ \E i \in InvIds : CallNext(i)
    \/ \E i \in InvIds : Return(i)
    \/ \E i \in InvIds : Throw(i)

SpecFlat == InitFlat /\ [][NextFlat]_vars

\* What a call did, link by link: entries with their arguments, logger
\* callbacks, returns and throws with their outcomes.  The entry and exit of
\* a composed middleware itself are left out.
TraceOf(v) ==
    LET es == SelectSeq(v.log, LAMBDA e : e.link # "composeMiddleware")
    IN  [j \in 1..Len(es) |->
            [ev |-> es[j].ev, link |-> es[j].link, args |-> es[j].args,
             calls |-> es[j].calls, out |-> es[j].out]]

\* Both calls settled the same way with the same Result or exception.
SameOutcome(v, w) == v.status = w.status /\ v.result = w.result

\* C11: for a list of plain middleware and a base action A, the action built
\* by createAction().use(m1)...use(mN).handle((ctx, ...args) => A(...args))
\* and applyMiddleware(A, [m1..mN]) invoke the same links in the same order
\* with the same arguments and return the same Result.
C11_BuilderEqualsApply ==
    actions[1].variant = "handle"
    => /\ inv[2].status # "idle" => IsPrefix(TraceOf(inv[2]), TraceOf(inv[1]))
       /\ Settled(inv[2])
          => (TraceOf(inv[2]) = TraceOf(inv[1]) /\ SameOutcome(inv[1], inv[2]))

C11_Witness ==
    /\ actions[1].variant = "handle"
    /\ FnsOf(actions[1].middlewares) = <<"withTransform", "withZodValidation">>
    /\ inv[1].status = "resolved" /\ inv[2].status = "resolved"
    /\ inv[2].result = Returned(success([value |-> Parsed(Transform(inv[2].args))]))
    /\ Len(inv[2].log) = 8

IsBaseExit(e) == e.ev = "after" \/ (e.ev = "return" /\ e.link \in BaseActions)

\* C12: a call of applyMiddleware(action, [m1..mN]) enters m1, ..., mN and
\* then action, and returns through mN, ..., m1 (m1 is outermost); with an
\* empty list the call is the action's own: it is entered first with the
\* caller's arguments and its outcome is the call's.
C12_ApplyOrder ==
    \A i \in InvIds :
        LET v == inv[i]
            act == actions[i]
            expected == FnsOf(act.list) \o <<act.handler>>
            en == Links(SelectSeq(v.log, IsEnter))
            xs == SelectSeq(v.log, IsBaseExit)
        IN  (v.status # "idle" /\ act.variant = "apply"
             /\ \A k \in 1..Len(act.list) : act.list[k].fn \in OnceFns)
            => /\ IsPrefix(en, expected)
               /\ \A a \in 1..Len(xs) :
                      /\ xs[a].link = expected[xs[a].pos]
                      /\ \A b \in (a + 1)..Len(xs) : xs[b].pos < xs[a].pos
               /\ (v.status = "resolved" /\ \A j \in 1..Len(v.log) : v.log[j].ev # "throw")
                  => (en = expected /\ Links(xs) = Reverse(expected))
               /\ act.list = <<>>
                  => /\ v.log[1].link = act.handler /\ v.log[1].args = v.args
                     /\ Settled(v) =>
                           LET d == HandlerBody(act.handler, EmptyCtx, v.args)
                           IN  v.result = IF d.op = "return" THEN Returned(d.result)
                                          ELSE Raised(d.error)

C12_Witness ==
    /\ inv[2].status = "resolved"
    /\ FnsOf(actions[2].list) = <<"withLogging", "withTransform">>
    /\ Links(SelectSeq(inv[2].log, IsEnter)) = <<"withLogging", "withTransform", "okAction">>
    /\ Links(SelectSeq(inv[2].log, IsBaseExit)) = <<"okAction", "withTransform", "withLogging">>

\* C13: applyMiddleware(A, [composeMiddleware(m1, ..., mN)]) and
\* applyMiddleware(A, [m1, ..., mN]) invoke the same links in the same order
\* with the same arguments and return the same Result; composeMiddleware()
\* with no middleware calls next directly with the arguments it received.
C13_ComposeEqualsList ==
    (actions[1].variant = "apply" /\ inv[1].status # "idle")
    => /\ inv[1].log[1].link = "composeMiddleware"
       /\ inv[2].status # "idle" => IsPrefix(TraceOf(inv[2]), TraceOf(inv[1]))
       /\ Settled(inv[2])
          => (TraceOf(inv[2]) = TraceOf(inv[1]) /\ SameOutcome(inv[1], inv[2]))
       /\ (actions[1].list[1].middleware = <<>> /\ Len(inv[1].log) >= 2)
          => /\ inv[1].log[2].ev = "enter" /\ inv[1].log[2].link = actions[1].handler
             /\ inv[1].log[2].args = inv[1].args

C13_Witness ==
    /\ actions[1].variant = "apply"
    /\ FnsOf(actions[1].list[1].middleware) = <<"withTransform", "deny">>
    /\ inv[1].status = "resolved" /\ inv[2].status = "resolved"
    /\ inv[2].result = Returned(error("Denied", "DENIED"))
    /\ Links(SelectSeq(inv[1].log, IsEnter)) = <<"composeMiddleware", "withTransform", "deny">>

(***************************************************************************)
(* Library model: middleware made by withZodValidation and withLogging,   *)
(* for every shape of parse error, option and logger, applied to a base   *)
(* action; the caller calls the result once and unwraps what it returns.  *)
(***************************************************************************)
ErrorShapes ==
    {ValidationError(TRUE, <<"Name is required">>, TRUE, "Schema-level error"),
     ValidationError(TRUE, <<"Name is required", "Invalid email">>, FALSE, ""),
     ValidationError(TRUE, <<"">>, TRUE, "Schema-level error"),
     ValidationError(TRUE, <<>>, TRUE, "Schema-level error"),
     ValidationError(FALSE, <<>>, TRUE, "Schema-level error"),
     ValidationError(FALSE, <<>>, FALSE, "")}

Schemas == {ValidationSchema("odd", err) : err \in ErrorShapes}

OptionSets ==
    {WithValidationOptions(hasCode, IF hasCode THEN "INVALID_INPUT" ELSE "", hasFormat) :
        hasCode \in BOOLEAN, hasFormat \in BOOLEAN}

Loggers == {Logger(c, ok, err) : c \in BOOLEAN, ok \in BOOLEAN, err \in BOOLEAN}

LibMws ==
    {withZodValidation(schema, options) : schema \in Schemas, options \in OptionSets}
    \cup {withLogging(logger) : logger \in Loggers}

InitLib ==
    \E ms \in SeqsUpTo(LibMws, MaxLibLen), A \in BaseActions :
        /\ builders = <<>>
        /\ actions = <<applyMiddleware(A, ms)>>
        /\ heap = [i \in InvIds |-> <<>>]
        /\ inv = [i \in InvIds |-> IdleInv]
        /\ hook = NoHook

NextLib ==
    \/ \E a \in Args : Invoke(1, 1, a)
    \/ CallNext(1)
    \/ Return(1)
    \/ Throw(1)
    \/ Unwrap(1)

SpecLib == InitLib /\ [][NextLib]_vars

\* The middleware a logged event belongs to.
IsMadeBy(v, e, factory) ==
    /\ ~IsHandlerPos(v, e.pos)
    /\ v.chain[e.pos].fn = factory
    /\ Library(v.chain[e.pos])

\* The events of kind ev logged at position k.
EventsAt(v, ev, k) == SelectSeq(v.log, LAMBDA e : e.ev = ev /\ e.pos = k)

\* C15: when safeParse fails with a first issue whose message is X and no
\* options are given, the validation middleware returns
\* {ok: false, message: X, code: "VALIDATION_ERROR"} and never calls next:
\* no link below it, the wrapped handler included, is entered.
C15_ValidationRejects ==
    \A i \in InvIds :
        LET v == inv[i]
        IN  \A j \in 1..Len(v.log) :
                LET e == v.log[j]
                IN  (/\ e.ev = "enter" /\ IsMadeBy(v, e, "withZodValidation")
                     /\ v.chain[e.pos].options = NoOptions
                     /\ ~safeParse(v.chain[e.pos].schema, e.args).success
                     /\ safeParse(v.chain[e.pos].schema, e.args).error.hasErrors
                     /\ Len(safeParse(v.chain[e.pos].schema, e.args).error.errors) >= 1)
                    => LET X == safeParse(v.chain[e.pos].schema, e.args).error.errors[1]
                       IN  /\ j < Len(v.log)
                              => /\ v.log[j + 1].ev = "return" /\ v.log[j + 1].pos = e.pos
                                 /\ v.log[j + 1].calls = 0
                                 /\ v.log[j + 1].out = Returned(error(X, "VALIDATION_ERROR"))
                           /\ \A m \in (j + 1)..Len(v.log) :
                                  v.log[m].ev # "enter" /\ v.log[m].pos <= e.pos

C15_Witness ==
    /\ inv[1].status = "resolved"
    /\ Len(inv[1].chain) = 1 /\ inv[1].chain[1].fn = "withZodValidation"
    /\ inv[1].chain[1].options = NoOptions
    /\ inv[1].handler = "okAction"
    /\ inv[1].result = Returned(error("Name is required", "VALIDATION_ERROR"))
    /\ Len(inv[1].log) = 2

\* C16: when safeParse succeeds with data D, the validation middleware calls
\* next exactly once, with D (the parsed value, not the input it was given),
\* and returns the Result of next unchanged.
C16_ValidationForwards ==
    \A i \in InvIds :
        LET v == inv[i]
        IN  \A j \in 1..Len(v.log) :
                LET e == v.log[j]
                    parsed == safeParse(v.chain[e.pos].schema, e.args)
                IN  (/\ e.ev = "enter" /\ IsMadeBy(v, e, "withZodValidation")
                     /\ parsed.success)
                    => /\ j < Len(v.log)
                          => /\ v.log[j + 1].ev = "enter" /\ v.log[j + 1].pos = e.pos + 1
                             /\ v.log[j + 1].args = parsed.data
                       /\ Len(EventsAt(v, "enter", e.pos + 1)) <= 1
                       /\ \A m \in (j + 1)..Len(v.log) :
                              (v.log[m].ev = "return" /\ v.log[m].pos = e.pos)
                              => /\ v.log[m].calls = 1
                                 /\ Len(EventsAt(v, "return", e.pos + 1)) = 1
                                 /\ v.log[m].out = EventsAt(v, "return", e.pos + 1)[1].out

C16_Witness ==
    /\ inv[1].status = "resolved"
    /\ Len(inv[1].chain) = 1 /\ inv[1].chain[1].fn = "withZodValidation"
    /\ inv[1].handler = "okAction"
    /\ inv[1].args = 1
    /\ inv[1].result = Returned(success([value |-> Parsed(1)]))

\* C17: on parse failure the Failure's message is formatError(error) when a
\* formatter is supplied, otherwise the first issue's message, otherwise the
\* error's top-level message, otherwise "Validation failed"; its code is the
\* caller-supplied code when given, otherwise "VALIDATION_ERROR".
C17_ValidationMessage ==
    \A i \in InvIds :
        LET v == inv[i]
        IN  \A j \in 1..Len(v.log) :
                LET e == v.log[j]
                    mw == v.chain[e.pos]
                    err == safeParse(mw.schema, e.args).error
                IN  (/\ e.ev = "return" /\ IsMadeBy(v, e, "withZodValidation")
                     /\ ~safeParse(mw.schema, e.args).success)
                    => /\ ~e.out.value.ok
                       /\ e.out.value.message =
                             (IF mw.options.hasFormat THEN formatError(err)
                              ELSE IF err.hasErrors /\ Len(err.errors) >= 1 THEN err.errors[1]
                              ELSE IF err.hasMessage THEN err.message
                              ELSE "Validation failed")
                       /\ e.out.value.code =
                             (IF mw.options.hasCode THEN mw.options.code
                              ELSE "VALIDATION_ERROR")

C17_Witness ==
    /\ inv[1].status = "resolved"
    /\ Len(inv[1].chain) = 1 /\ inv[1].chain[1].fn = "withZodValidation"
    /\ inv[1].chain[1].options = WithValidationOptions(TRUE, "INVALID_INPUT", FALSE)
    /\ inv[1].chain[1].schema.error = ValidationError(TRUE, <<>>, TRUE, "Schema-level error")
    /\ inv[1].result = Returned(error("Schema-level error", "INVALID_INPUT"))

\* C18: in each call of the logging middleware, onCall(args) runs before
\* next is invoked, next is invoked exactly once with the original arguments,
\* and after next returned exactly one of onSuccess(data, args) (the Result is
\* a Success) and onError(message, code, args) (it is a Failure) runs, never
\* both; a callback the logger does not supply is skipped.
C18_LoggingCallbacks ==
    \A i \in InvIds :
        LET v == inv[i]
        IN  \A j \in 1..Len(v.log) :
                LET e == v.log[j]
                    logger == v.chain[e.pos].logger
                    calls == EventsAt(v, "onCall", e.pos)
                    oks == EventsAt(v, "onSuccess", e.pos)
                    errs == EventsAt(v, "onError", e.pos)
                    back == EventsAt(v, "after", e.pos)
                    done == EventsAt(v, "return", e.pos)
                    n == IF logger.onCall THEN j + 2 ELSE j + 1
                IN  (e.ev = "enter" /\ IsMadeBy(v, e, "withLogging"))
                    => /\ j < Len(v.log)
                          => /\ logger.onCall
                                => (v.log[j + 1].ev = "onCall" /\ v.log[j + 1].args = e.args)
                             /\ v.log[n].ev = "enter" /\ v.log[n].pos = e.pos + 1
                             /\ v.log[n].args = e.args
                       /\ Len(calls) = (IF logger.onCall /\ j < Len(v.log) THEN 1 ELSE 0)
                       /\ Len(EventsAt(v, "enter", e.pos + 1)) <= 1
                       /\ Len(oks) + Len(errs) <= 1
                       /\ back = <<>> => (oks = <<>> /\ errs = <<>>)
                       /\ done # <<>>
                          => /\ Len(back) = 1 /\ done[1].calls = 1
                             /\ Len(oks) = (IF back[1].out.value.ok /\ logger.onSuccess
                                            THEN 1 ELSE 0)
                             /\ Len(errs) = (IF ~back[1].out.value.ok /\ logger.onError
                                             THEN 1 ELSE 0)
                             /\ \A c \in 1..Len(oks) :
                                    /\ oks[c].args = e.args
                                    /\ oks[c].out.value = <<back[1].out.value.data>>
                             /\ \A c \in 1..Len(errs) :
                                    /\ errs[c].args = e.args
                                    /\ errs[c].out.value = <<back[1].out.value.message,
                                                              back[1].out.value.code>>

C18_Witness ==
    /\ inv[1].status = "resolved"
    /\ Len(inv[1].chain) = 1 /\ inv[1].chain[1].fn = "withLogging"
    /\ inv[1].chain[1].logger = Logger(TRUE, TRUE, TRUE)
    /\ inv[1].handler = "failAction"
    /\ Len(EventsAt(inv[1], "onCall", 1)) = 1
    /\ Len(EventsAt(inv[1], "onError", 1)) = 1
    /\ EventsAt(inv[1], "onSuccess", 1) = <<>>

\* C19: the logging middleware returns exactly the Result next returned, a
\* Success or a Failure, whichever callbacks the logger supplies.
C19_LoggingForwards ==
    \A i \in InvIds :
        LET v == inv[i]
        IN  \A j \in 1..Len(v.log) :
                LET e == v.log[j]
                IN  (e.ev = "return" /\ IsMadeBy(v, e, "withLogging"))
                    => /\ Len(EventsAt(v, "return", e.pos + 1)) = 1
                       /\ e.out = EventsAt(v, "return", e.pos + 1)[1].out

C19_Witness ==
    /\ inv[1].status = "resolved"
    /\ Len(inv[1].chain) = 1 /\ inv[1].chain[1].fn = "withLogging"
    /\ inv[1].chain[1].logger = Logger(TRUE, FALSE, FALSE)
    /\ inv[1].handler = "failAction"
    /\ inv[1].result = Returned(error("Failed", "FAIL_CODE"))

\* C20: unwrap(result) returns the payload when result is a Success; when it
\* is a Failure it throws an error whose message is the Failure's message and
\* returns no value.
C20_Unwrap ==
    \A i \in InvIds :
        LET v == inv[i]
        IN  v.unwrapped # NoOutcome
            => /\ v.status = "resolved"
               /\ v.result.value.ok
                  => v.unwrapped = Returned(v.result.value.data)
               /\ ~v.result.value.ok
                  => /\ v.unwrapped.kind = "throw"
                     /\ v.unwrapped.value.message = v.result.value.message

C20_Witness ==
    /\ inv[1].handler = "failAction"
    /\ inv[1].chain = <<>>
    /\ inv[1].unwrapped = Raised([name |-> "Error", message |-> "Failed"])

(***************************************************************************)
(* Marker model: functions written for either calling convention reach    *)
(* use() through createContextMiddleware, through createMiddleware or     *)
(* from a factory, and the built action is called once.                   *)
(***************************************************************************)
MarkMws ==
    {createContextMiddleware(fn) : fn \in {"withUser", "withDb", "withLogging"}}
    \cup {createMiddleware(fn) : fn \in {"withUser", "withDb", "withLogging"}}
    \cup {withLogging(FullLogger)}

InitMark ==
    \E ms \in SeqsUpTo(MarkMws, MaxLen), h \in {"okHandler", "failHandler"} :
        LET c == createAction(<<>>)
            r == UseAll(c.builders, c.ret, ms)
        IN  /\ builders = r.builders
            /\ actions = <<handle(r.builders, r.ret, h)>>
            /\ heap = [i \in InvIds |-> <<>>]
            /\ inv = [i \in InvIds |-> IdleInv]
            /\ hook = NoHook

NextMark ==
    \/ \E a \in Args : Invoke(1, 1, a)
    \/ CallNext(1)
    \/ Return(1)

SpecMark == InitMark /\ [][NextMark]_vars

\* C14: in an action made by handle, a middleware is called as
\* (next, ctx, ...args) if and only if it carries the marker that
\* createContextMiddleware sets; any other function passed to use, one that
\* went through createMiddleware included, is called as (next, ...args), and
\* its next takes arguments only: the link below is given the context the
\* chain held at its position, whatever the function passed.
C14_MarkerDecides ==
    \A i \in InvIds :
        LET v == inv[i]
        IN  \A j \in 1..Len(v.log) :
                LET e == v.log[j]
                    mw == v.chain[e.pos]
                IN  (e.ev = "enter" /\ ~IsHandlerPos(v, e.pos) /\ v.variant = "handle")
                    => /\ e.ctx # NoCtx
                       /\ (e.given = e.ctx) <=> (mw.marker = TRUE)
                       /\ mw.marker # TRUE
                          => /\ e.given = NoCtx
                             /\ \A m \in (j + 1)..Len(v.log) :
                                    (v.log[m].ev = "enter" /\ v.log[m].pos = e.pos + 1)
                                    => /\ v.log[m].ctx = e.ctx
                                       /\ v.log[m].keys = e.keys
                                       /\ mw.fn \in CtxFns => v.log[m].args = ObjectArg
                       /\ (mw.marker = TRUE /\ mw.fn = "withUser")
                          => \A m \in (j + 1)..Len(v.log) :
                                 (v.log[m].ev = "enter" /\ v.log[m].pos = e.pos + 1)
                                 => v.log[m].keys["user"] = Entry("alice", i)

C14_Witness ==
    /\ inv[1].status = "resolved"
    /\ inv[1].chain = <<createMiddleware("withUser"), createContextMiddleware("withLogging"),
                        createContextMiddleware("withDb")>>
    /\ inv[1].log[1].given = NoCtx
    /\ inv[1].log[2].given = inv[1].log[2].ctx
    /\ inv[1].log[2].args = ObjectArg
    /\ KeysOf(inv[1].log[4].keys) = {"db"}
    /\ inv[1].result = Returned(success([input |-> Undefined, user |-> "absent"]))

(***************************************************************************)
(* Hook model: one component renders useServerAction with an action and   *)
(* with or without callbacks, starts executions that may overlap, resets, *)
(* unmounts.  What the action does in a call (return a Success or a       *)
(* Failure, throw) is chosen when the call settles.                       *)
(***************************************************************************)
Payloads == {"alice", "bob"}

ThrownValues ==
    {HandledError("Email taken", "CONFLICT"), HandledError("Email taken", NoCode),
     NewError("NetworkError", "Network error"), NonError}

\* The function behind a plain action returns a Result or throws; the
\* function given to serverAction resolves with a payload or throws.
PlainBehaviours ==
    {Does("success", d, Null, NoCode, NonError) : d \in Payloads}
    \cup {Does("error", Null, "Not found", c, NonError) : c \in {"NOT_FOUND", NoCode}}
    \cup {Does("throw", Null, Null, NoCode, e) : e \in ThrownValues}

WrappedBehaviours ==
    {Does("resolve", d, Null, NoCode, NonError) : d \in Payloads}
    \cup {Does("throw", Null, Null, NoCode, e) : e \in ThrownValues}

BehavioursOf(action) ==
    IF action.wrapper = "serverAction" THEN WrappedBehaviours ELSE PlainBehaviours

HookActions == {RawAction} \cup {serverAction(ServerActionOptions(o)) : o \in OnErrorOptions}

Execute ==
    /\ hook.mounted
    /\ Len(hook.execs) < MaxExecs
    /\ hook' = Start(hook, "execute")
    /\ UNCHANGED <<builders, actions, heap, inv>>

ExecuteAsync ==
    /\ hook.mounted
    /\ Len(hook.execs) < MaxExecs
    /\ hook' = Start(hook, "executeAsync")
    /\ UNCHANGED <<builders, actions, heap, inv>>

\* The call made by execution id settles: fn did b, and a wrapper handled it.
Respond(id, b) ==
    /\ id \in DOMAIN hook.execs
    /\ hook.execs[id].status = "called"
    /\ b \in BehavioursOf(hook.input.action)
    /\ LET act == hook.input.action
           o == FnOutcome(b)
       IN  hook' = [hook EXCEPT
                       !.execs[id].status = "responded",
                       !.execs[id].fn = b,
                       !.execs[id].outcome = ActionOutcome(act, o),
                       !.execs[id].calls =
                           IF act.wrapper = "serverAction"
                              /\ ServerActionReports(act.options, o)
                           THEN Append(@, HookEv("options.onError", id, Null,
                                                 o.value.message, o.value.code))
                           ELSE @]
    /\ UNCHANGED <<builders, actions, heap, inv>>

\* The hook's continuation of execution id runs.
Settle(id) ==
    /\ id \in DOMAIN hook.execs
    /\ hook.execs[id].status = "responded"
    /\ LET x == hook.execs[id]
       IN  hook' = [Continue(hook, id) EXCEPT
                       !.recent = IF hook.mounted /\ x.outcome.kind = "return"
                                     /\ x.outcome.value.ok
                                  THEN x.outcome.value.data ELSE @]
    /\ UNCHANGED <<builders, actions, heap, inv>>

\* The caller of executeAsync reads the Result it got with the helpers.
Inspect(id, d) ==
    /\ id \in DOMAIN hook.execs
    /\ hook.execs[id].status = "settled"
    /\ hook.execs[id].returned.kind = "return"
    /\ hook.execs[id].seen.unwrapOr.kind = "none"
    /\ LET r == hook.execs[id].returned.value
       IN  hook' = [hook EXCEPT !.execs[id].seen =
                       [isSuccess |-> isSuccess(r), isError |-> isError(r),
                        default |-> d, unwrapOr |-> unwrapOr(r, d)]]
    /\ UNCHANGED <<builders, actions, heap, inv>>

Reset ==
    /\ hook.mounted
    /\ hook' = [reset(hook) EXCEPT !.recent = Null]
    /\ UNCHANGED <<builders, actions, heap, inv>>

\* React finishes the transition: its callback has returned (the promise of
\* the action is not handed to React) and the updates it made are rendered.
EndTransition ==
    /\ hook.isPending
    /\ hook' = [hook EXCEPT !.isPending = FALSE]
    /\ UNCHANGED <<builders, actions, heap, inv>>

\* The effect's cleanup runs.
Unmount ==
    /\ hook.mounted
    /\ hook' = [hook EXCEPT !.mounted = FALSE]
    /\ UNCHANGED <<builders, actions, heap, inv>>

InitHook ==
    /\ builders = <<>>
    /\ actions = <<>>
    /\ heap = [i \in InvIds |-> <<>>]
    /\ inv = [i \in InvIds |-> IdleInv]
    /\ \E c \in BOOLEAN :
           hook = useServerAction(UseServerActionInput(RawAction, c, c, c))

NextHook ==
    \/ Execute
    \/ ExecuteAsync
    \/ \E id \in 1..MaxExecs : \E b \in PlainBehaviours : Respond(id, b)
    \/ \E id \in 1..MaxExecs : Settle(id)
    \/ EndTransition
    \/ Reset
    \/ Unmount

SpecHook == InitHook /\ [][NextHook]_vars

(***************************************************************************)
(* Caller model: a caller awaits executeAsync on a hook whose action is a *)
(* plain async function or one wrapped by serverAction (with an onError   *)
(* option that is absent, returns or throws), and reads the Result it got *)
(* with isSuccess, isError and unwrapOr.                                  *)
(***************************************************************************)
Defaults == {"guest"}

InitWrap ==
    /\ builders = <<>>
    /\ actions = <<>>
    /\ heap = [i \in InvIds |-> <<>>]
    /\ inv = [i \in InvIds |-> IdleInv]
    /\ \E act \in HookActions, c \in BOOLEAN :
           hook = useServerAction(UseServerActionInput(act, c, c, c))

NextWrap ==
    \/ Len(hook.execs) < MaxCalls /\ ExecuteAsync
    \/ \E id \in 1..MaxCalls : \E b \in PlainBehaviours \cup WrappedBehaviours :
           Respond(id, b)
    \/ \E id \in 1..MaxCalls : Settle(id)
    \/ \E id \in 1..MaxCalls : \E d \in Defaults : Inspect(id, d)

SpecWrap == InitWrap /\ [][NextWrap]_vars

\* The executions that reached at least the given stage.
Stage(status) ==
    CASE status = "called" -> 0
      [] status = "responded" -> 1
      [] OTHER -> 2

Reached(status) ==
    {id \in DOMAIN hook.execs : Stage(hook.execs[id].status) >= Stage(status)}

\* The executions whose caller read the Result with the helpers.
Inspected == {id \in DOMAIN hook.execs : hook.execs[id].seen.unwrapOr.kind # "none"}

Wrapped == hook.input.action.wrapper = "serverAction"

(***************************************************************************)
(* C21: unwrapOr(result, d) never fails: it returns the payload when the  *)
(* result is a Success and d when the result is a Failure.  Checked on    *)
(* every Result a caller of executeAsync got: the payload is the one the  *)
(* function on the server produced, and any other outcome yields d.       *)
(***************************************************************************)
C21_UnwrapOr ==
    \A id \in Inspected :
        LET x == hook.execs[id]
        IN  /\ x.seen.unwrapOr.kind = "return"
            /\ x.seen.unwrapOr.value =
                   IF x.fn.do \in {"success", "resolve"} THEN x.fn.data
                   ELSE x.seen.default

\* A caller passed a Failure to unwrapOr and got the default back.
C21_Witness ==
    \E id \in Inspected :
        LET x == hook.execs[id]
        IN  /\ x.returned.value.ok = FALSE
            /\ x.seen.unwrapOr = Returned(x.seen.default)

(***************************************************************************)
(* C22: for every Result exactly one of isSuccess and isError is true;    *)
(* success(d) is a Success whose payload is d; error(m, c) is a Failure   *)
(* whose message is m and whose code is c, absent when c is not given.    *)
(***************************************************************************)
C22_ResultShapes ==
    /\ \A id \in Inspected :
           LET x == hook.execs[id]
           IN  /\ x.seen.isSuccess # x.seen.isError
               /\ x.seen.isSuccess = (x.fn.do \in {"success", "resolve"})
    /\ \A id \in Reached("responded") :
           LET x == hook.execs[id]
           IN  /\ x.fn.do = "success" =>
                      /\ x.outcome.kind = "return"
                      /\ x.outcome.value.ok = TRUE
                      /\ x.outcome.value.data = x.fn.data
                      /\ DOMAIN x.outcome.value = {"ok", "data"}
               /\ x.fn.do = "error" =>
                      /\ x.outcome.kind = "return"
                      /\ x.outcome.value.ok = FALSE
                      /\ x.outcome.value.message = x.fn.message
                      /\ x.outcome.value.code = x.fn.code
                      /\ DOMAIN x.outcome.value = {"ok", "message", "code"}

\* A Failure built by error(m) without a code was read by a caller as an error.
C22_Witness ==
    \E id \in Inspected :
        LET x == hook.execs[id]
        IN  /\ x.fn.do = "error"
            /\ x.fn.code = NoCode
            /\ x.returned.value.code = NoCode
            /\ x.seen.isError
            /\ ~x.seen.isSuccess

(***************************************************************************)
(* C23: provided options.onError does not throw, serverAction(fn) always  *)
(* resolves with a Result and never rejects: success(v) when fn resolves  *)
(* with v; the Failure with the message and code of the HandledError when *)
(* fn throws one; the fixed Failure "An unexpected error occurred" /      *)
(* UNKNOWN_ERROR when fn throws anything else, whose own message is not   *)
(* exposed.                                                               *)
(***************************************************************************)
C23_ServerAction ==
    (Wrapped /\ hook.input.action.options.onError # "throws") =>
        \A id \in Reached("responded") :
            LET x == hook.execs[id]
                e == x.fn.error
            IN  /\ x.outcome.kind = "return"
                /\ x.fn.do = "resolve" => x.outcome.value = success(x.fn.data)
                /\ (x.fn.do = "throw" /\ InstanceOfHandledError(e)) =>
                       x.outcome.value = error(e.message, e.code)
                /\ (x.fn.do = "throw" /\ ~InstanceOfHandledError(e)) =>
                       /\ x.outcome.value =
                              error("An unexpected error occurred", "UNKNOWN_ERROR")
                       /\ x.outcome.value.message # e.message

\* fn threw an Error that is no HandledError; the wrapper reported it to
\* options.onError and resolved with the fixed Failure.
C23_Witness ==
    /\ Wrapped
    /\ hook.input.action.options.onError = "returns"
    /\ \E id \in Reached("responded") :
           LET x == hook.execs[id]
           IN  /\ x.fn.do = "throw"
               /\ x.fn.error = NewError("NetworkError", "Network error")
               /\ x.outcome = Returned(error("An unexpected error occurred",
                                             "UNKNOWN_ERROR"))
               /\ \E j \in DOMAIN x.calls : x.calls[j].ev = "options.onError"

\* Execution id settles in this step: the hook's continuation for it runs.
Settling(id) ==
    /\ id \in DOMAIN hook.execs
    /\ hook.execs[id].status = "responded"
    /\ hook'.execs[id].status = "settled"

\* The callbacks run for execution id in this step.
NewCalls(id) ==
    SubSeq(hook'.execs[id].calls, Len(hook.execs[id].calls) + 1,
           Len(hook'.execs[id].calls))

\* The names of the callbacks in a list of calls.
Names(calls) == [j \in DOMAIN calls |-> calls[j].ev]

(***************************************************************************)
(* C24: when an execution started by execute or executeAsync settles with *)
(* a Success carrying payload d while the component is mounted, the hook  *)
(* state becomes data = d, error = null, errorCode = null, isSuccess =    *)
(* true, isError = false, and onSuccess (when supplied) is called with d. *)
(***************************************************************************)
C24_SuccessState ==
    [][\A id \in DOMAIN hook.execs :
          LET o == hook.execs[id].outcome
          IN  (Settling(id) /\ hook.mounted /\ o.kind = "return" /\ o.value.ok) =>
                  /\ hook'.data = hook.execs[id].fn.data
                  /\ hook'.error = Null
                  /\ hook'.errorCode = Null
                  /\ hook'.isSuccess = TRUE
                  /\ hook'.isError = FALSE
                  /\ hook.input.onSuccess =>
                         \E j \in DOMAIN NewCalls(id) :
                             /\ NewCalls(id)[j].ev = "onSuccess"
                             /\ NewCalls(id)[j].data = hook.execs[id].fn.data]_vars

\* An execution succeeded after an overlapping one had failed: the state
\* shows the payload and no error, and onSuccess got the payload.
C24_Witness ==
    /\ hook.input.onSuccess
    /\ Len(hook.execs) = 2
    /\ hook.execs[1].status = "settled"
    /\ hook.execs[1].fn.do = "error"
    /\ Names(hook.execs[1].calls) = <<"onError", "onSettled">>
    /\ hook.execs[2].status = "settled"
    /\ hook.execs[2].fn.do = "success"
    /\ hook.execs[2].inFlight = {1}
    /\ Names(hook.execs[2].calls) = <<"onSuccess", "onSettled">>
    /\ hook.execs[2].calls[1].data = hook.execs[2].fn.data
    /\ hook.isSuccess
    /\ hook.data = hook.execs[2].fn.data
    /\ hook.error = Null

(***************************************************************************)
(* C25: when an execution settles with a Failure (message m, optional     *)
(* code c), the hook state becomes error = m, errorCode = c or null when  *)
(* c is absent, isSuccess = false, isError = true, onError (when          *)
(* supplied) is called with (m, c), and data is left unchanged: it still  *)
(* holds the payload of the most recent Success since the last reset, or  *)
(* null.                                                                  *)
(***************************************************************************)
C25_FailureState ==
    [][\A id \in DOMAIN hook.execs :
          LET o == hook.execs[id].outcome
          IN  (Settling(id) /\ hook.mounted /\ o.kind = "return" /\ ~o.value.ok) =>
                  /\ hook'.error = o.value.message
                  /\ hook'.errorCode =
                         (IF o.value.code = NoCode THEN Null ELSE o.value.code)
                  /\ hook'.isSuccess = FALSE
                  /\ hook'.isError = TRUE
                  /\ hook'.data = hook.data
                  /\ hook'.data = hook'.recent
                  /\ hook.input.onError =>
                         \E j \in DOMAIN NewCalls(id) :
                             /\ NewCalls(id)[j].ev = "onError"
                             /\ NewCalls(id)[j].message = o.value.message
                             /\ NewCalls(id)[j].code = o.value.code]_vars

\* A Failure without a code was handled after an earlier Success: the error
\* is shown with a null code and the data of the Success is still there.
C25_Witness ==
    /\ hook.input.onError
    /\ Len(hook.execs) = 2
    /\ hook.execs[1].status = "settled"
    /\ hook.execs[1].fn.do = "success"
    /\ Names(hook.execs[1].calls) = <<"onSuccess", "onSettled">>
    /\ hook.execs[2].status = "settled"
    /\ hook.execs[2].fn.do = "error"
    /\ hook.execs[2].fn.code = NoCode
    /\ hook.execs[2].inFlight = {}
    /\ Names(hook.execs[2].calls) = <<"onError", "onSettled">>
    /\ hook.isError
    /\ hook.error = "Not found"
    /\ hook.errorCode = Null
    /\ hook.data = hook.execs[1].fn.data

(***************************************************************************)
(* C26: when the action throws an Error e instead of returning a Result,  *)
(* the hook ends in the error state with error = e.message and errorCode  *)
(* = e.name, onError (when supplied) is called with (e.message, e.name),  *)
(* and executeAsync resolves with the Failure {ok: false, message:        *)
(* e.message, code: e.name} rather than rejecting.                        *)
(***************************************************************************)
C26_ExceptionState ==
    [][\A id \in DOMAIN hook.execs :
          LET o == hook.execs[id].outcome
              e == o.value
          IN  (Settling(id) /\ o.kind = "throw" /\ InstanceOfError(e)) =>
                  /\ hook.execs[id].via = "executeAsync" =>
                         hook'.execs[id].returned =
                             Returned([ok |-> FALSE, message |-> e.message,
                                       code |-> e.name])
                  /\ hook.mounted =>
                         /\ hook'.error = e.message
                         /\ hook'.errorCode = e.name
                         /\ hook'.isSuccess = FALSE
                         /\ hook'.isError = TRUE
                         /\ hook.input.onError =>
                                \E j \in DOMAIN NewCalls(id) :
                                    /\ NewCalls(id)[j].ev = "onError"
                                    /\ NewCalls(id)[j].message = e.message
                                    /\ NewCalls(id)[j].code = e.name]_vars

\* executeAsync was called on an action that threw the NetworkError: it
\* resolved with the Failure made from it and the hook shows the error.
C26_Witness ==
    /\ hook.input.onError
    /\ \E id \in DOMAIN hook.execs :
           LET x == hook.execs[id]
           IN  /\ x.via = "executeAsync"
               /\ x.status = "settled"
               /\ x.outcome = Raised(NewError("NetworkError", "Network error"))
               /\ x.returned = Returned(error("Network error", "NetworkError"))
               /\ Names(x.calls) = <<"onError", "onSettled">>
               /\ x.calls[1].message = "Network error"
               /\ x.calls[1].code = "NetworkError"
    /\ hook.isError
    /\ hook.error = "Network error"
    /\ hook.errorCode = "NetworkError"

\* How often a callback occurs in a list of calls.
Count(calls, cb) == Cardinality({j \in DOMAIN calls : calls[j].ev = cb})

(***************************************************************************)
(* C27: for every execution started by execute or executeAsync on a hook  *)
(* that stays mounted, onSettled (when supplied) is called exactly once,  *)
(* when the execution completes, whether it ended with a Success, a       *)
(* Failure or a thrown exception, and always after the onSuccess or       *)
(* onError call of that execution.                                        *)
(***************************************************************************)
C27_SettledOnce ==
    [][\A id \in DOMAIN hook.execs :
          LET x == hook.execs[id]
              y == hook'.execs[id]
              o == x.outcome
              first == IF o.kind = "return" /\ o.value.ok THEN "onSuccess" ELSE "onError"
          IN  /\ Count(x.calls, "onSettled") <= 1
              /\ x.status # "settled" => Count(x.calls, "onSettled") = 0
              /\ x.status = "settled" => y.calls = x.calls
              /\ (Settling(id) /\ hook.mounted /\ hook.input.onSettled) =>
                     /\ Count(y.calls, "onSettled") = 1
                     /\ y.calls[Len(y.calls)].ev = "onSettled"
                     /\ hook.input[first] =>
                            /\ Len(NewCalls(id)) = 2
                            /\ NewCalls(id)[1].ev = first]_vars

\* Two kinds of completion on one hook, a thrown exception and a Success,
\* each followed by exactly one onSettled.
C27_Witness ==
    /\ hook.input.onSettled
    /\ hook.input.onSuccess
    /\ hook.input.onError
    /\ Len(hook.execs) = 2
    /\ hook.execs[1].status = "settled"
    /\ hook.execs[1].outcome.kind = "throw"
    /\ Names(hook.execs[1].calls) = <<"onError", "onSettled">>
    /\ hook.execs[2].status = "settled"
    /\ hook.execs[2].fn.do = "success"
    /\ Names(hook.execs[2].calls) = <<"onSuccess", "onSettled">>

(***************************************************************************)
(* C28: reset() puts the hook back in its initial state from any state:   *)
(* data = null, error = null, errorCode = null, isSuccess = false,        *)
(* isError = false, exactly the values the hook has before any execution. *)
(***************************************************************************)
\* A step of reset that changes the state: no execution starts or advances,
\* no transition ends and the component stays mounted.
Resetting ==
    /\ hook' # hook
    /\ hook'.execs = hook.execs
    /\ hook'.isPending = hook.isPending
    /\ hook'.mounted = hook.mounted

Shown(h) ==
    [data |-> h.data, error |-> h.error, errorCode |-> h.errorCode,
     isSuccess |-> h.isSuccess, isError |-> h.isError]

C28_Reset ==
    [][Resetting =>
          /\ Shown(hook') = Shown(useServerAction(hook.input))
          /\ Shown(hook') = [data |-> Null, error |-> Null, errorCode |-> Null,
                             isSuccess |-> FALSE, isError |-> FALSE]]_vars

\* A Success was handled (onSuccess ran) and nothing of it is shown any
\* more: reset was called after it.
C28_Witness ==
    /\ hook.input.onSuccess
    /\ \E id \in DOMAIN hook.execs :
           /\ hook.execs[id].status = "settled"
           /\ Names(hook.execs[id].calls) = <<"onSuccess", "onSettled">>
    /\ InFlight(hook) = {}
    /\ Shown(hook) = Shown(useServerAction(hook.input))

(***************************************************************************)
(* C29: starting a new execution with execute or executeAsync immediately *)
(* clears error, errorCode, isSuccess and isError (to null, null, false,  *)
(* false) before the action settles and leaves data unchanged, so an      *)
(* error from a previous execution is no longer reported once the new     *)
(* execution has succeeded.                                               *)
(***************************************************************************)
C29_StartClears ==
    [][/\ Len(hook'.execs) = Len(hook.execs) + 1 =>
              /\ hook'.error = Null
              /\ hook'.errorCode = Null
              /\ hook'.isSuccess = FALSE
              /\ hook'.isError = FALSE
              /\ hook'.data = hook.data
              /\ hook'.execs[Len(hook'.execs)].status = "called"
       /\ \A id \in DOMAIN hook.execs :
              LET o == hook.execs[id].outcome
              IN  (Settling(id) /\ hook.mounted /\ o.kind = "return" /\ o.value.ok) =>
                      /\ hook'.error = Null
                      /\ hook'.errorCode = Null
                      /\ hook'.isError = FALSE]_vars

\* An execution failed and the error was shown; a new execution was started
\* after it and has not settled: the error is cleared, the flags are down.
C29_Witness ==
    /\ Len(hook.execs) = 2
    /\ hook.execs[1].status = "settled"
    /\ hook.execs[1].fn.do = "error"
    /\ hook.execs[1].calls # <<>>
    /\ hook.execs[2].inFlight = {}
    /\ hook.execs[2].status = "called"
    /\ hook.error = Null
    /\ hook.errorCode = Null
    /\ ~hook.isError
    /\ ~hook.isSuccess

\* Does what the hook shows reflect an execution whose action settled with o?
Reflects(h, o) ==
    IF o.kind = "return" /\ o.value.ok
    THEN /\ h.isSuccess = TRUE
         /\ h.isError = FALSE
         /\ h.error = Null
         /\ h.errorCode = Null
    ELSE LET f == IF o.kind = "return" THEN o.value ELSE ExceptionFailure(o.value)
         IN  /\ h.isSuccess = FALSE
             /\ h.isError = TRUE
             /\ h.error = f.message
             /\ h.errorCode = (IF f.code = NoCode THEN Null ELSE f.code)

(***************************************************************************)
(* C30: the hook reports the last execution: when two executions started  *)
(* on the same hook overlap, then once both have settled, isSuccess,      *)
(* isError, error and errorCode reflect the outcome of the execution that *)
(* was started last, whatever the order in which the two settle.          *)
(***************************************************************************)
C30_LastStartedWins ==
    [][\A id \in DOMAIN hook.execs :
          (/\ Settling(id)
           /\ hook.mounted
           /\ Len(hook.execs) = 2
           /\ hook.execs[2].inFlight = {1}
           /\ InFlight(hook') = {}) =>
              Reflects(hook', hook.execs[2].outcome)]_vars

(***************************************************************************)
(* C31: isPending is true whenever an execution started by execute or     *)
(* executeAsync has not yet settled, and false when no execution is in    *)
(* flight.                                                                *)
(***************************************************************************)
C31_PendingWhileInFlight ==
    hook.mounted => (hook.isPending = (InFlight(hook) # {}))

(***************************************************************************)
(* C38: in every reachable state of the hook, under any interleaving of   *)
(* execute, executeAsync, reset and the settling of in-flight executions, *)
(* isSuccess and isError are never both true, isError implies error is    *)
(* not null, and isSuccess implies error and errorCode are null.          *)
(***************************************************************************)
C38_StateConsistent ==
    /\ ~(hook.isSuccess /\ hook.isError)
    /\ hook.isError => hook.error # Null
    /\ hook.isSuccess => (hook.error = Null /\ hook.errorCode = Null)

\* Two overlapping executions settled in both orders of outcome: the later
\* one succeeded first, then the earlier one failed, and the error is shown.
C38_Witness ==
    /\ Len(hook.execs) = 2
    /\ hook.execs[2].inFlight = {1}
    /\ hook.execs[1].status = "settled"
    /\ hook.execs[2].status = "settled"
    /\ hook.execs[2].fn.do = "success"
    /\ hook.execs[1].fn.do = "error"
    /\ hook.data = hook.execs[2].fn.data
    /\ hook.isError
    /\ ~hook.isSuccess
    /\ hook.error = "Not found"

(***************************************************************************)
(* C39: once the component using the hook has unmounted, the settling of  *)
(* an in-flight execution changes none of data, error, errorCode,         *)
(* isSuccess, isError and calls none of onSuccess, onError, onSettled,    *)
(* while executeAsync still resolves with the execution's Result to its   *)
(* caller.                                                                *)
(***************************************************************************)
C39_UnmountedSilent ==
    [][\A id \in DOMAIN hook.execs :
          LET x == hook.execs[id]
          IN  (Settling(id) /\ ~hook.mounted) =>
                  /\ Shown(hook') = Shown(hook)
                  /\ hook'.execs[id].calls = x.calls
                  /\ x.via = "executeAsync" =>
                         /\ hook'.execs[id].returned.kind = "return"
                         /\ x.outcome.kind = "return" =>
                                hook'.execs[id].returned.value = x.outcome.value
                         /\ x.outcome.kind = "throw" =>
                                hook'.execs[id].returned.value.ok = FALSE]_vars

\* An execution started by executeAsync failed after the component had
\* unmounted: its caller got the Failure, the hook shows nothing of it and
\* no callback ran, although all were supplied.
C39_Witness ==
    /\ ~hook.mounted
    /\ hook.input.onError
    /\ hook.input.onSettled
    /\ \E id \in DOMAIN hook.execs :
           LET x == hook.execs[id]
           IN  /\ x.via = "executeAsync"
               /\ x.status = "settled"
               /\ x.fn.do = "error"
               /\ x.returned = Returned(x.outcome.value)
               /\ x.calls = <<>>
    /\ ~hook.isError
    /\ hook.error = Null

(***************************************************************************)
(* Arguments along the chain of one call.                                  *)
(***************************************************************************)
\* The latest entry of position k among the first j events of a call.
RECURSIVE LastEnter(_, _, _)
LastEnter(es, j, k) ==
    IF j = 0 THEN 0
    ELSE IF es[j].ev = "enter" /\ es[j].pos = k THEN j
    ELSE LastEnter(es, j - 1, k)

\* What a middleware passes to next, given what it received.
PassedOn(link, a) == IF link = "withTransform" THEN Transform(a) ELSE a

LinkEvs == {"enter", "after", "return", "throw", "propagate"}

\* C32: a link is entered with exactly the arguments the link before it
\* passed to next (the caller's arguments for the outermost link), so a
\* transformation made at position k reaches every later link and the
\* handler, while every link keeps, when it resumes or ends, the arguments it
\* was entered with: links before k never see the transformation.
C32_ArgsFlow ==
    \A i \in InvIds :
        LET v == inv[i]
        IN  \A j \in 1..Len(v.log) :
                LET e == v.log[j]
                    up == LastEnter(v.log, j - 1, e.pos - 1)
                    own == LastEnter(v.log, j, e.pos)
                IN  /\ (e.ev = "enter" /\ e.pos = 1) => e.args = v.args
                    /\ (e.ev = "enter" /\ e.pos > 1)
                       => /\ up > 0
                          /\ e.args = PassedOn(v.log[up].link, v.log[up].args)
                    /\ e.ev \in LinkEvs
                       => /\ own > 0
                          /\ e.args = v.log[own].args
                          /\ e.args = ExpectedArgs(v.chain, e.pos, v.args)

C32_Witness ==
    /\ inv[1].status = "resolved"
    /\ FnsOf(inv[1].chain) = <<"withLogging", "withTransform", "withUser">>
    /\ inv[1].args = 0
    /\ inv[1].result = Returned(success([input |-> 1, user |-> "alice"]))
    /\ \E j \in 1..Len(inv[1].log) :
           /\ inv[1].log[j].ev = "after" /\ inv[1].log[j].pos = 1
           /\ inv[1].log[j].args = 0
           /\ \E m \in 1..(j - 1) :
                  /\ inv[1].log[m].ev = "enter" /\ inv[1].log[m].pos = 4
                  /\ inv[1].log[m].args = 1

(***************************************************************************)
(* How often a link is entered.                                            *)
(***************************************************************************)
Entries(v, k) == {j \in 1..Len(v.log) : v.log[j].ev = "enter" /\ v.log[j].pos = k}

HandlerPos(v) == Len(v.chain) + 1

\* The middleware ended without having called next: it returned a Result of
\* its own or threw.
EndsBeforeNext(e) ==
    e.ev \in {"return", "throw"} /\ e.calls = 0

\* The same, read from the code of the middleware and what it is given.
Blocks(fn, a) == fn \in {"deny", "thrower"} \/ (fn = "withAuth" /\ ~ValidToken(a))

\* C36: with middleware that call next at most once, every middleware and
\* the handler is entered at most once in a call; the handler is never
\* entered when a middleware before it returned or threw without calling
\* next, and once the call has settled it was entered exactly once if no
\* middleware did so.
C36_EnteredOnce ==
    \A i \in InvIds :
        LET v == inv[i]
            blocked == \E j \in 1..Len(v.log) :
                           /\ v.log[j].pos < HandlerPos(v)
                           /\ EndsBeforeNext(v.log[j])
            blocks == \E k \in 1..Len(v.chain) :
                          Blocks(v.chain[k].fn, ExpectedArgs(v.chain, k, v.args))
        IN  v.status # "idle"
            => /\ \A k \in 1..HandlerPos(v) : Cardinality(Entries(v, k)) <= 1
               /\ \A j \in 1..Len(v.log) : v.log[j].pos \in 1..HandlerPos(v)
               /\ blocked => Entries(v, HandlerPos(v)) = {}
               /\ Settled(v)
                  => /\ blocked = blocks
                     /\ (Cardinality(Entries(v, HandlerPos(v))) = 1) = ~blocked

C36_Witness ==
    /\ inv[1].status = "resolved"
    /\ FnsOf(inv[1].chain) = <<"withUser", "withAuth", "withDb">>
    /\ inv[1].args = 0
    /\ Cardinality(Entries(inv[1], 1)) = 1
    /\ Cardinality(Entries(inv[1], 2)) = 1
    /\ Entries(inv[1], 3) = {}
    /\ Entries(inv[1], 4) = {}
    /\ inv[1].result = Returned(error("Unauthorized", "UNAUTHORIZED"))

(***************************************************************************)
(* The shape of one call's history.                                        *)
(***************************************************************************)
NotNested == <<0>>

\* The positions of the links that are open (entered and not yet ended)
\* after the events es, outermost first: a link may only be entered from
\* the innermost open one, and only the innermost open link may resume or
\* end.  NotNested if the events do not nest this way.
RECURSIVE Open(_)
Open(es) ==
    IF es = <<>> THEN <<>>
    ELSE LET before == Open(SubSeq(es, 1, Len(es) - 1))
             e == es[Len(es)]
             n == Len(before)
         IN  IF before = NotNested THEN NotNested
             ELSE IF e.ev = "enter"
             THEN IF e.pos = n + 1 THEN Append(before, e.pos) ELSE NotNested
             ELSE IF n = 0 \/ e.pos # before[n] THEN NotNested
             ELSE IF e.ev \in {"return", "throw", "propagate"}
             THEN SubSeq(before, 1, n - 1)
             ELSE before

NthCall(p, nth, i) ==
    Body(p.link, IF nth = 1 THEN "entered" ELSE "resumed", nth - 1, NoOutcome, p.args, i)

\* C34: a link is entered with exactly the context the middleware before it
\* passed to next: the very object a middleware that is not context-aware
\* was entered with, the object a context-aware one handed over with the
\* keys it put there and no others.  A context-aware middleware that passes
\* a context without the keys set before it leaves every later link and the
\* handler without them.  The outermost link gets the empty context.
C34_ContextAsPassed ==
    \A i \in InvIds :
        LET v == inv[i]
        IN  \A j \in 1..Len(v.log) :
                LET e == v.log[j]
                    up == LastEnter(v.log, j - 1, e.pos - 1)
                    p == v.log[up]
                    nth == Cardinality({m \in Entries(v, e.pos) : up < m /\ m <= j})
                    d == NthCall(p, nth, i)
                IN  e.ev = "enter"
                    => /\ e.pos = 1 => e.keys = EmptyCtx
                       /\ e.given \in {e.ctx, NoCtx}
                       /\ e.pos > 1
                          => /\ up > 0 /\ d.op = "next"
                             /\ ~CtxStyle(v.variant, v.chain[e.pos - 1])
                                => (e.ctx = p.ctx /\ e.keys = p.keys)
                             /\ CtxStyle(v.variant, v.chain[e.pos - 1])
                                => CASE d.mode = "spread" ->
                                            /\ e.ctx # p.ctx
                                            /\ e.keys = [p.keys EXCEPT ![d.key] = d.val]
                                     [] d.mode = "same" ->
                                            /\ e.ctx = p.ctx
                                            /\ e.keys = [p.keys EXCEPT ![d.key] = d.val]
                                     [] d.mode = "fresh" ->
                                            /\ e.ctx # p.ctx
                                            /\ e.keys = EmptyCtx
                                     [] OTHER -> FALSE
                       /\ \A k \in 1..(e.pos - 1) :
                              (v.chain[k].fn = "dropCtx"
                               /\ \A m \in k..(e.pos - 1) : v.chain[m].fn \notin {"withUser", "twice"})
                              => e.keys["user"] = Absent

C34_Witness ==
    /\ inv[1].status = "resolved"
    /\ inv[1].variant = "handle"
    /\ FnsOf(inv[1].chain) = <<"withUser", "dropCtx">>
    /\ \E j \in 1..Len(inv[1].log) :
           /\ inv[1].log[j].ev = "enter" /\ inv[1].log[j].pos = 2
           /\ inv[1].log[j].keys["user"] = Entry("alice", 1)
    /\ \E j \in 1..Len(inv[1].log) :
           /\ inv[1].log[j].ev = "enter" /\ inv[1].log[j].pos = 3
           /\ inv[1].log[j].keys = EmptyCtx
    /\ inv[1].result = Returned(success([input |-> inv[1].args, user |-> "absent"]))

\* C35: no operation on any builder changes the middleware sequence an
\* already finalized action runs: every existing action stays, with the
\* same middleware in the same order.
C35_ActionKeepsMiddleware ==
    [][\A n \in DOMAIN actions :
           /\ n \in DOMAIN actions'
           /\ ActionMiddlewares(builders', actions'[n])
              = ActionMiddlewares(builders, actions[n])]_vars

(***************************************************************************)
(* Progress of one call.  The steps of a call are continuations on the    *)
(* microtask queue: the event loop runs every one that is queued, so a    *)
(* step that stays possible is eventually taken.  The caller is free      *)
(* never to call the action.                                               *)
(***************************************************************************)
MaxLiveLen == 2

InitLive ==
    \E ms \in SeqsUpTo({Mw(fn) : fn \in SeqFns}, MaxLiveLen), h \in Handlers :
        LET c == createAction(<<>>)
            r == UseAll(c.builders, c.ret, ms)
        IN  /\ builders = r.builders
            /\ actions = <<handle(r.builders, r.ret, h)>>
            /\ heap = [i \in InvIds |-> <<>>]
            /\ inv = [i \in InvIds |-> IdleInv]
            /\ hook = NoHook

Step == CallNext(1) \/ Return(1) \/ Throw(1)

SpecLive == InitLive /\ [][Next]_vars /\ WF_vars(Step)

\* C37: with middleware that call next at most once and links that each
\* return or throw, a call that has started eventually settles: it resolves
\* with a Result or rejects with what was thrown.
C37_Settles ==
    (inv[1].status = "running")
        ~> (/\ Settled(inv[1])
            /\ inv[1].stack = <<>>
            /\ inv[1].result.kind = (IF inv[1].status = "resolved" THEN "return" ELSE "throw"))

C37_Witness ==
    /\ inv[1].status = "rejected"
    /\ FnsOf(inv[1].chain) = <<"lateThrow", "withDb">>
    /\ inv[1].handler = "okHandler"
    /\ inv[1].result = Raised("late")
    /\ Cardinality(Entries(inv[1], 3)) = 1

====
